---- MODULE Spec2Model ----
(***************************************************************************)
(* holded-sync: routing of canonical products and orders to the primary    *)
(* and secondary ledger (config.js), and the ledger client's product and   *)
(* order synchronisation (destinations/holded.js).                         *)
(*                                                                         *)
(* SpecRouter  the run of main() as far as routing decides it: fetch,      *)
(*             filterProductsByDestination, filterOrdersByDestination and  *)
(*             the error counts main() collects from the order syncs.      *)
(* Spec        one HoldedClient against one ledger, one HTTP request per   *)
(*             step, every request free to fail.                           *)
(* SpecCalc    the tax and price arithmetic of createInvoice and of        *)
(*             createOrUpdateProduct.                                      *)
(* SpecDocs    syncOrders against a ledger that counts its documents.      *)
(* SpecHints   syncOrders over orders naming a sales channel, a warehouse. *)
(* SpecFetch   the aggregation of the records of the source adapters.      *)
(* SpecExit    main() from its arguments to its exit status.               *)
(***************************************************************************)
EXTENDS Integers, Sequences, FiniteSets, TLC

\* ------------------------------------------------------------------------
\* Bounds
\* ------------------------------------------------------------------------
MaxEnvSkus == 1      \* entries of HOLDED_SECONDARY_SKUS / EXCLUDED_SKUS
MaxProducts == 2     \* products fetched in one run
MaxOrders == 2       \* orders fetched in one run
MaxLineItems == 3    \* line items of all orders of one run together
MaxBatch == 2        \* products (orders) handed to one sync call
MaxCalls == 2        \* sync calls made against the ledger
MaxQuantity == 2     \* quantity of an invoice line
MaxSourceRecords == 1 \* records one source holds for the fetched period

\* ------------------------------------------------------------------------
\* Program constants
\* ------------------------------------------------------------------------
PageSize == 50           \* Holded page size assumed by loadExistingProducts
DefaultVatRate == 21     \* config.sync.defaultVatRate
SiteVatRate == 21        \* defaultVatRate of a configured WooCommerce site

\* ------------------------------------------------------------------------
\* SKUs.  "A" and "a" differ only in case; "b" has no upper-case twin.
\* ------------------------------------------------------------------------
Skus == {"a", "A", "b"}

\* String.prototype.toLowerCase on the SKU alphabet
toLowerCase(s) == IF s = "A" THEN "a" ELSE s

Range(f) == {f[i] : i \in DOMAIN f}

SeqsUpTo(S, n) == UNION {[1..k -> S] : k \in 0..n}

\* the values of a comma separated environment variable, as a set of entries
EnvLists == {E \in SUBSET Skus : Cardinality(E) <= MaxEnvSkus}

VARIABLES
  secondarySkus,    \* config.holdedSecondary.skus
  excludedSkus,     \* config.sync.excludedSkus (lower-cased when parsed)
  excludedEnv,      \* EXCLUDED_SKUS as written in the environment
  mainPc,           \* position of main()
  allProducts,      \* products fetched by main()
  routedProducts,   \* { primary, secondary } of filterProductsByDestination
  allOrders,        \* orders fetched by main()
  routedOrders,     \* { primary, secondary } of filterOrdersByDestination
  orderErrors,      \* results.orders.{primary,secondary}.errors
  errorOrderIds,    \* ids of the orders whose createInvoice failed
  productWrites,    \* product create/update requests sent, per ledger
  openProductWrites,\* those of them not yet answered, per ledger
  documentCreates   \* document create requests sent, per ledger

VARIABLES
  ledgerProducts,   \* ledger: number of products held per sku
  ledgerFillers,    \* ledger: products of other skus, listed first
  ledgerContacts,   \* ledger: contacts
  existingProducts, \* this.existingProducts: sku -> id
  existingContacts, \* this.existingContacts: email/name -> id
  salesChannels,    \* this.salesChannels: names loaded
  warehouses,       \* this.warehouses: names loaded
  paymentMethods,   \* this.paymentMethods: names loaded
  pc,               \* position of the client
  callKind,         \* the sync call running or returned last
  batchLen,         \* length of the list handed to the running sync call
  processed,        \* items of that list already processed
  page,             \* page of loadExistingProducts
  pending,          \* loads of initialize() not yet settled
  results,          \* the counts the running sync call accumulates
  item,             \* the product being processed
  curOrder,         \* the order being processed
  contactId,        \* contactId of createInvoice
  lastReq,          \* the HTTP request settled last
  itemReqs,         \* the requests settled for the current item
  lastOutcome,      \* result of the last createOrUpdateProduct/createInvoice
  calls,            \* sync calls started so far
  noFail,           \* no request has failed so far
  syncedSkus,       \* skus written successfully by syncProducts so far
  syncedBefore,     \* syncedSkus when the running call started
  callSkus,         \* skus of the products processed by the running call
  createdThisCall,  \* sku -> id returned by a create of the running call
  failedWrites,     \* failed product writes / document creates of the call
  loadedSkus,       \* skus the load of the running call has put into existingProducts
  indexComplete,    \* the load of the running call has read the last page
  inFlight,         \* the requests sent and not yet answered
  writesSent        \* product writes / document creates sent in the running call

VARIABLES
  calcPc,           \* what was computed last: "none", "line" or "product"
  calcEntry,        \* the entry of existingProducts the computation found
  calcSite,         \* siteVatRate handed to the computation
  calcLine,         \* the order line handed to createInvoice
  calcItem,         \* the element of invoiceData.items built from it
  calcProduct,      \* the product handed to createOrUpdateProduct
  calcPayload       \* the price and tax of the payload built from it

VARIABLES
  ledgerDocuments,  \* ledger: number of documents held per order
  curOrderId,       \* id of the order being processed
  curHints,         \* order.salesChannel and order.warehouse of that order
  docHints,         \* salesChannel and warehouse of its document payload
  channelsFailed    \* the load of the sales channels of the running call threw

VARIABLES
  srcKind,          \* what is fetched: "products" or "orders"
  srcHeld,          \* records each source holds
  srcSite,          \* sites the loop over the WooCommerce sites has done
  wcRecords,        \* allProducts / allOrders of fetchAllWooCommerce...
  sumupRecords,     \* what fetchSumUpTransactions resolved to, Null before
  srcFailed,        \* sources whose fetch threw
  srcThrown,        \* an exception left the fetch functions
  fetched           \* the aggregated list main() goes on with, Null before

VARIABLES
  mainArgs,         \* args.products, args.sales, args.help
  configValid,      \* validateConfig() finds no configuration error
  exitPc,           \* position of main() on its way to the exit
  resultErrors,     \* results.{products,orders}.{primary,secondary}.errors
  mainThrown,       \* an exception has reached the catch of main()
  exitCode          \* the exit status of the process, Null while it runs

routerVars == <<secondarySkus, excludedSkus, excludedEnv, mainPc, allProducts,
                routedProducts, allOrders, routedOrders, orderErrors,
                errorOrderIds, productWrites, openProductWrites,
                documentCreates>>

ledgerVars == <<ledgerProducts, ledgerFillers, ledgerContacts>>

cacheVars == <<existingProducts, existingContacts, salesChannels, warehouses,
               paymentMethods>>

callVars == <<pc, callKind, batchLen, processed, page, pending, results, item, curOrder,
              contactId, lastReq, itemReqs, lastOutcome, calls>>

historyVars == <<noFail, syncedSkus, syncedBefore, callSkus, createdThisCall,
                 failedWrites>>

auditVars == <<loadedSkus, indexComplete>>

docVars == <<ledgerDocuments, curOrderId, curHints, docHints, channelsFailed>>

flightVars == <<inFlight, writesSent>>

clientVars == <<ledgerVars, cacheVars, callVars, historyVars, auditVars, flightVars>>

calcVars == <<calcPc, calcEntry, calcSite, calcLine, calcItem, calcProduct, calcPayload>>

sourceVars == <<srcKind, srcHeld, srcSite, wcRecords, sumupRecords, srcFailed,
                srcThrown, fetched>>

exitVars == <<mainArgs, configValid, exitPc, resultErrors, mainThrown, exitCode>>

vars == <<routerVars, clientVars, calcVars, docVars, sourceVars, exitVars>>

\* ------------------------------------------------------------------------
\* config.js
\* ------------------------------------------------------------------------
\* EXCLUDED_SKUS.split(',').map(sku => sku.trim().toLowerCase())
parseExcludedSkus(env) == {toLowerCase(s) : s \in env}

\* HOLDED_SECONDARY_SKUS.split(',').map(sku => sku.trim())
parseSecondarySkus(env) == env

\* variant: the SKU is compared as written, without lower-casing it
isExcludedSkuCaseSensitive(sku) == sku \in excludedSkus

isExcludedSku(sku) == toLowerCase(sku) \in excludedSkus

isSecondaryProduct(product) == product.sku \in secondarySkus

\* variant: every() in place of some()
hasSecondarySkusEvery(order) ==
  \A i \in 1..Len(order.items) : order.items[i] \in secondarySkus

hasSecondarySkus(order) ==
  \E i \in 1..Len(order.items) : order.items[i] \in secondarySkus

NotExcludedItem(sku) == ~isExcludedSku(sku)

\* variant: the order is passed on with its items unfiltered
filteredOrderUnfiltered(order) == order

\* order.items.filter(item => !isExcludedSku(item.sku)) with the spread copy
filteredOrder(order) ==
  [order EXCEPT !.items = SelectSeq(order.items, NotExcludedItem)]

RECURSIVE routeProductsUnshift(_, _)
\* variant: unshift() in place of push()
routeProductsUnshift(products, n) ==
  IF n = 0 THEN [primary |-> <<>>, secondary |-> <<>>]
  ELSE LET r == routeProductsUnshift(products, n - 1)
           product == products[n]
       IN  IF isExcludedSku(product.sku) THEN r
           ELSE IF isSecondaryProduct(product)
                THEN [r EXCEPT !.secondary = <<product>> \o @]
                ELSE [r EXCEPT !.primary = <<product>> \o @]

RECURSIVE routeProducts(_, _)
\* the forEach of filterProductsByDestination over products[1..n]
routeProducts(products, n) ==
  IF n = 0 THEN [primary |-> <<>>, secondary |-> <<>>]
  ELSE LET r == routeProducts(products, n - 1)
           product == products[n]
       IN  IF isExcludedSku(product.sku) THEN r
           ELSE IF isSecondaryProduct(product)
                THEN [r EXCEPT !.secondary = Append(@, product)]
                ELSE [r EXCEPT !.primary = Append(@, product)]

filterProductsByDestination(products) == routeProducts(products, Len(products))

\* variant: an order is also pushed to primary when it holds a primary item
RECURSIVE routeOrdersSplit(_, _)
routeOrdersSplit(orders, n) ==
  IF n = 0 THEN [primary |-> <<>>, secondary |-> <<>>]
  ELSE LET r == routeOrdersSplit(orders, n - 1)
           fo == filteredOrder(orders[n])
           r2 == IF hasSecondarySkus(fo)
                 THEN [r EXCEPT !.secondary = Append(@, fo)]
                 ELSE r
       IN  IF Len(fo.items) = 0 THEN r
           ELSE IF \E i \in 1..Len(fo.items) : fo.items[i] \notin secondarySkus
                THEN [r2 EXCEPT !.primary = Append(@, fo)]
                ELSE r2

RECURSIVE routeOrders(_, _)
\* the forEach of filterOrdersByDestination over orders[1..n]
routeOrders(orders, n) ==
  IF n = 0 THEN [primary |-> <<>>, secondary |-> <<>>]
  ELSE LET r == routeOrders(orders, n - 1)
           fo == filteredOrder(orders[n])
       IN  IF Len(fo.items) = 0 THEN r
           ELSE IF hasSecondarySkus(fo)
                THEN [r EXCEPT !.secondary = Append(@, fo)]
                ELSE [r EXCEPT !.primary = Append(@, fo)]

filterOrdersByDestination(orders) == routeOrders(orders, Len(orders))

\* ------------------------------------------------------------------------
\* Canonical records handed over by the source adapters.  The id of a
\* record is its position in the fetched list, so that a record in an output
\* list names the input record it came from.
\* ------------------------------------------------------------------------
ProductLists ==
  {[i \in 1..Len(s) |-> [id |-> i, sku |-> s[i]]] : s \in SeqsUpTo(Skus, MaxProducts)}

ItemLists == SeqsUpTo(Skus, MaxLineItems)

RECURSIVE ItemListSeqs(_, _)
\* the sequences of at most n item lists holding at most m items together
ItemListSeqs(n, m) ==
  IF n = 0 THEN {<<>>}
  ELSE {<<>>} \cup
       UNION {{<<its>> \o rest : rest \in ItemListSeqs(n - 1, m - Len(its))} :
              its \in {l \in ItemLists : Len(l) <= m}}

OrderLists ==
  {[i \in 1..Len(s) |-> [id |-> i, items |-> s[i]]] : s \in ItemListSeqs(MaxOrders, MaxLineItems)}

None == [primary |-> <<>>, secondary |-> <<>>]
NoErrors == [primary |-> 0, secondary |-> 0]
\* no request sent to either ledger
NoRequests == [primary |-> 0, secondary |-> 0]

\* ------------------------------------------------------------------------
\* main() of index.js, as far as routing decides it
\* ------------------------------------------------------------------------
InitRouter ==
  /\ \E secEnv \in EnvLists, exEnv \in EnvLists :
       /\ secondarySkus = parseSecondarySkus(secEnv)
       /\ excludedEnv = exEnv
       /\ excludedSkus = parseExcludedSkus(exEnv)
  /\ mainPc = "start"
  /\ allProducts = <<>>
  /\ routedProducts = None
  /\ allOrders = <<>>
  /\ routedOrders = None
  /\ orderErrors = NoErrors
  /\ errorOrderIds = {}
  /\ productWrites = NoRequests
  /\ openProductWrites = NoRequests
  /\ documentCreates = NoRequests

\* const allProducts = await fetchAllWooCommerceProducts(config.woocommerce)
MainFetchProducts ==
  /\ mainPc = "start"
  /\ \E ps \in ProductLists : allProducts' = ps
  /\ mainPc' = "productsFetched"
  /\ UNCHANGED <<secondarySkus, excludedSkus, excludedEnv, routedProducts,
                 allOrders, routedOrders, orderErrors, errorOrderIds>>
  /\ UNCHANGED <<productWrites, openProductWrites, documentCreates>>

\* filterProductsByDestination(allProducts)
MainRouteProducts ==
  /\ mainPc = "productsFetched"
  /\ routedProducts' = filterProductsByDestination(allProducts)
  /\ mainPc' = "productsRouted"
  /\ UNCHANGED <<secondarySkus, excludedSkus, excludedEnv, allProducts,
                 allOrders, routedOrders, orderErrors, errorOrderIds>>
  /\ UNCHANGED <<productWrites, openProductWrites, documentCreates>>

\* variant: syncProducts is called and not awaited
syncProductsNotAwaited(open) == open

\* await holdedX.syncProducts(...): main() goes on when every write of the
\* call, each awaited in its turn, has been answered
awaitSyncProducts(open) == 0

\* holdedPrimary.syncProducts(primaryProducts, ...): one create or update
\* request per product of the list
MainSyncPrimaryProducts ==
  /\ mainPc = "productsRouted"
  /\ productWrites' = [productWrites EXCEPT !.primary = Len(routedProducts.primary)]
  /\ openProductWrites' =
       [openProductWrites EXCEPT !.primary = awaitSyncProducts(Len(routedProducts.primary))]
  /\ mainPc' = "primaryProductsSynced"
  /\ UNCHANGED <<secondarySkus, excludedSkus, excludedEnv, allProducts,
                 routedProducts, allOrders, routedOrders, orderErrors,
                 errorOrderIds, documentCreates>>

\* holdedSecondary.syncProducts(secondaryProducts, secondarySiteConfigs)
MainSyncSecondaryProducts ==
  /\ mainPc = "primaryProductsSynced"
  /\ productWrites' = [productWrites EXCEPT !.secondary = Len(routedProducts.secondary)]
  /\ openProductWrites' =
       [openProductWrites EXCEPT !.secondary = awaitSyncProducts(Len(routedProducts.secondary))]
  /\ mainPc' = "productsSynced"
  /\ UNCHANGED <<secondarySkus, excludedSkus, excludedEnv, allProducts,
                 routedProducts, allOrders, routedOrders, orderErrors,
                 errorOrderIds, documentCreates>>

\* the sales phase starts; the block-scoped product lists are gone
MainFetchOrders ==
  /\ mainPc \in {"start", "productsSynced"}
  /\ \E os \in OrderLists : allOrders' = os
  /\ allProducts' = <<>>
  /\ routedProducts' = None
  /\ mainPc' = "ordersFetched"
  /\ UNCHANGED <<secondarySkus, excludedSkus, excludedEnv, routedOrders,
                 orderErrors, errorOrderIds>>
  /\ UNCHANGED <<productWrites, openProductWrites, documentCreates>>

\* filterOrdersByDestination(allOrders)
MainRouteOrders ==
  /\ mainPc = "ordersFetched"
  /\ routedOrders' = filterOrdersByDestination(allOrders)
  /\ mainPc' = "ordersRouted"
  /\ UNCHANGED <<secondarySkus, excludedSkus, excludedEnv, allProducts,
                 routedProducts, allOrders, orderErrors, errorOrderIds>>
  /\ UNCHANGED <<productWrites, openProductWrites, documentCreates>>

\* holdedPrimary.syncOrders(primaryOrders, ...): one createInvoice per order
\* of the list, each succeeding or failing; errors counts the failures
MainSyncPrimaryOrders ==
  /\ mainPc = "ordersRouted"
  /\ \E failed \in SUBSET (1..Len(routedOrders.primary)) :
       /\ orderErrors' = [orderErrors EXCEPT !.primary = Cardinality(failed)]
       /\ errorOrderIds' = errorOrderIds \cup {routedOrders.primary[i].id : i \in failed}
  /\ mainPc' = "primaryOrdersSynced"
  /\ UNCHANGED <<secondarySkus, excludedSkus, excludedEnv, allProducts,
                 routedProducts, allOrders, routedOrders>>
  /\ documentCreates' = [documentCreates EXCEPT !.primary = Len(routedOrders.primary)]
  /\ UNCHANGED <<productWrites, openProductWrites>>

\* holdedSecondary.syncOrders(secondaryOrders, ...)
MainSyncSecondaryOrders ==
  /\ mainPc = "primaryOrdersSynced"
  /\ \E failed \in SUBSET (1..Len(routedOrders.secondary)) :
       /\ orderErrors' = [orderErrors EXCEPT !.secondary = Cardinality(failed)]
       /\ errorOrderIds' = errorOrderIds \cup {routedOrders.secondary[i].id : i \in failed}
  /\ mainPc' = "ordersSynced"
  /\ UNCHANGED <<secondarySkus, excludedSkus, excludedEnv, allProducts,
                 routedProducts, allOrders, routedOrders>>
  /\ documentCreates' = [documentCreates EXCEPT !.secondary = Len(routedOrders.secondary)]
  /\ UNCHANGED <<productWrites, openProductWrites>>


\* ------------------------------------------------------------------------
\* The ledger (Holded) as the client sees it
\* ------------------------------------------------------------------------
ClientSkus == {"a", "b"}

\* an absent value (null, undefined, no field) is the empty set, a present
\* value v is {v}
Null == {}
Some(v) == {v}
Val(o) == CHOOSE v \in o : TRUE

\* JavaScript truthiness of an optional number
Truthy(o) == o # Null /\ o # Some(0)

\* a || b
Or(a, b) == IF Truthy(a) THEN a ELSE b

NoId == <<>>

\* the k-th product the ledger holds for a sku
ProductId(sku, k) == <<sku, k>>

SkuOffset(sku) == IF sku = "a" THEN 0 ELSE ledgerProducts["a"]

LedgerTotal == ledgerFillers + ledgerProducts["a"] + ledgerProducts["b"]

\* position of the k-th product of a sku in the listing of GET /products
Position(sku, k) == ledgerFillers + SkuOffset(sku) + k

Min(x, y) == IF x < y THEN x ELSE y
Max(S) == CHOOSE x \in S : \A y \in S : y <= x

\* the positions served as page p
PagePositions(p) == ((p - 1) * PageSize + 1)..Min(p * PageSize, LedgerTotal)

\* the products of a sku on page p, by their number
OnPage(sku, p) ==
  {k \in 1..ledgerProducts[sku] : Position(sku, k) \in PagePositions(p)}

\* the contact a search by a field and a value returns, first match
SearchContact(field, value) ==
  LET hits == {c \in ledgerContacts : c[field] = value}
  IN  IF hits = {} THEN Null ELSE Some(CHOOSE c \in hits : TRUE)

ContactIdFor(customer) == <<"contact", customer.name>>

\* ------------------------------------------------------------------------
\* Canonical products and orders handed to the client
\* ------------------------------------------------------------------------
ProductInputs ==
  [sku : ClientSkus, sitePrefix : {Null, Some("S1")}, defaultVatRate : {Null, Some(10)}]

NoCustomer == [isNull |-> TRUE, name |-> "", email |-> "", dni |-> "", vatNumber |-> ""]

Customers ==
  { NoCustomer,
    [isNull |-> FALSE, name |-> "Ann", email |-> "ann@x", dni |-> "", vatNumber |-> ""],
    [isNull |-> FALSE, name |-> "Bob", email |-> "", dni |-> "1X", vatNumber |-> "ES1"],
    [isNull |-> FALSE, name |-> "", email |-> "", dni |-> "", vatNumber |-> "ES2"] }

OrderInputs == [customer : Customers, paid : BOOLEAN]

ContactKeys == {"ann@x", "Bob"}

NoItem == [sku |-> "", sitePrefix |-> Null, defaultVatRate |-> Null]

NoOrder == [customer |-> NoCustomer, paid |-> FALSE]

\* the contact part of a document payload: none of the three forms
NoLink == [contactId |-> NoId, contactCode |-> "", inline |-> FALSE]

NoReq == [kind |-> "none", ok |-> TRUE, sku |-> "", id |-> NoId, tax |-> Null,
          link |-> NoLink]

Req(kind, ok, sku, id, tax) ==
  [kind |-> kind, ok |-> ok, sku |-> sku, id |-> id, tax |-> tax, link |-> NoLink]

NoResults == [created |-> 0, updated |-> 0, errors |-> 0]

\* ------------------------------------------------------------------------
\* HoldedClient
\* ------------------------------------------------------------------------
\* the constructor: five empty maps
EmptyProducts == [s \in ClientSkus |-> NoId]
EmptyContacts == [k \in ContactKeys |-> NoId]

InitClient ==
  /\ ledgerProducts \in [ClientSkus -> {0, 1}]
  /\ ledgerFillers \in {0, PageSize - 1}
  /\ ledgerContacts = {}
  /\ existingProducts = EmptyProducts
  /\ existingContacts = EmptyContacts
  /\ salesChannels = {}
  /\ warehouses = {}
  /\ paymentMethods = {}
  /\ pc = "idle"
  /\ callKind = "none"
  /\ batchLen = 0
  /\ processed = 0
  /\ page = 1
  /\ pending = {}
  /\ results = NoResults
  /\ item = NoItem
  /\ curOrder = NoOrder
  /\ contactId = NoId
  /\ lastReq = NoReq
  /\ itemReqs = <<>>
  /\ lastOutcome = "none"
  /\ calls = 0
  /\ noFail = TRUE
  /\ syncedSkus = {}
  /\ syncedBefore = {}
  /\ callSkus = {}
  /\ createdThisCall = EmptyProducts
  /\ failedWrites = 0
  /\ loadedSkus = {}
  /\ indexComplete = FALSE
  /\ inFlight = {}
  /\ writesSent = 0

\* variant: the request is sent and not awaited
awaitNot(flight, kind) == flight

\* await this.client.get/post/put(...): the caller goes on only when the
\* request has returned or failed
await(flight, kind) == flight \ {kind}

\* the requests sent are in flight
issue(flight, kinds) == flight \cup kinds

\* the request the client sends on reaching a position, done of len items
\* of the list processed
issuedAt(p, done, len) ==
  IF p \in {"searchEmail", "searchDni", "searchVat", "createContact", "payDocument"}
  THEN {p}
  ELSE IF p = "postDocument" THEN {"createDocument"}
  ELSE IF p = "productLoop" /\ done < len THEN {"writeProduct"}
  ELSE IF p = "loadProducts" THEN {"listProducts"}
  ELSE {}

\* a new process: new HoldedClient(...) against the same ledger
NewClient ==
  /\ pc \in {"idle", "returned"}
  /\ calls > 0
  /\ existingProducts # EmptyProducts \/ existingContacts # EmptyContacts
       \/ salesChannels # {} \/ pc = "returned"
  /\ existingProducts' = EmptyProducts
  /\ existingContacts' = EmptyContacts
  /\ salesChannels' = {}
  /\ warehouses' = {}
  /\ paymentMethods' = {}
  /\ pc' = "idle"
  /\ UNCHANGED <<ledgerVars, callKind, batchLen, processed, page, pending, results, item, curOrder, contactId,
                 lastReq, itemReqs, lastOutcome, calls, historyVars>>
  /\ UNCHANGED loadedSkus
  /\ UNCHANGED indexComplete
  /\ UNCHANGED inFlight
  /\ UNCHANGED writesSent

\* variant: the page is read and nothing is stored
mergePageNothing(cache, p) == cache

\* products.forEach(p => { if (p.sku) this.existingProducts.set(p.sku, ...) })
\* for the products served as page p
mergePage(cache, p) ==
  [s \in ClientSkus |->
     IF OnPage(s, p) = {} THEN cache[s] ELSE ProductId(s, Max(OnPage(s, p)))]

\* variant: the load goes on until a page comes back empty
hasMoreUntilEmpty(p) == Cardinality(PagePositions(p)) > 0

\* hasMore = products.length === 50
hasMore(p) == Cardinality(PagePositions(p)) = PageSize

\* variant: initialize() is over when the first of its loads has settled
initializedByAny(pend) == TRUE

\* await Promise.all([...the four loads]): initialize() is over when none
\* of its loads is pending any more
initialized(pend) == pend = {}

\* where the caller of loadExistingProducts goes on when the load is over
AfterLoadExistingProducts ==
  IF pc = "loadProducts"
  THEN /\ pc' = "productLoop"
       /\ pending' = pending
  ELSE /\ pending' = pending \ {"products"}
       /\ pc' = IF initialized(pending \ {"products"}) THEN "orderLoop" ELSE pc

LoadingProducts ==
  \/ pc = "loadProducts"
  \/ pc = "initialize" /\ "products" \in pending

\* loadExistingProducts: GET /products?page=page answered
LoadProductsPage ==
  /\ LoadingProducts
  /\ existingProducts' = mergePage(existingProducts, page)
  /\ loadedSkus' = loadedSkus \cup {s \in ClientSkus : OnPage(s, page) # {}}
  /\ indexComplete' = ~hasMore(page)
  /\ lastReq' = Req("listProducts", TRUE, "", NoId, Null)
  /\ page' = page + 1
  /\ IF hasMore(page)
     THEN UNCHANGED <<pc, pending>>
     ELSE AfterLoadExistingProducts
  /\ UNCHANGED <<ledgerVars, existingContacts, salesChannels, warehouses,
                 paymentMethods, callKind, batchLen, processed, results, item, curOrder, contactId, itemReqs,
                 lastOutcome, calls, historyVars>>
  /\ inFlight' = issue(await(inFlight, "listProducts"),
                      IF hasMore(page) THEN {"listProducts"}
                      ELSE issuedAt(pc', processed', batchLen'))
  /\ UNCHANGED writesSent

\* loadExistingProducts: GET /products?page=page failed; the catch logs it
LoadProductsPageFailed ==
  /\ LoadingProducts
  /\ lastReq' = Req("listProducts", FALSE, "", NoId, Null)
  /\ noFail' = FALSE
  /\ AfterLoadExistingProducts
  /\ UNCHANGED <<ledgerVars, cacheVars, callKind, batchLen, processed, page, results, item, curOrder, contactId,
                 itemReqs, lastOutcome, calls, syncedSkus, syncedBefore,
                 callSkus, createdThisCall, failedWrites>>
  /\ UNCHANGED loadedSkus
  /\ UNCHANGED indexComplete
  /\ inFlight' = issue(await(inFlight, "listProducts"), issuedAt(pc', processed', batchLen'))
  /\ UNCHANGED writesSent

\* syncProducts(products, siteConfigs) is called: loadExistingProducts starts
CallSyncProducts ==
  /\ pc \in {"idle", "returned"}
  /\ calls < MaxCalls
  /\ \E len \in 0..MaxBatch : batchLen' = len
  /\ pc' = "loadProducts"
  /\ callKind' = "syncProducts"
  /\ calls' = calls + 1
  /\ processed' = 0
  /\ page' = 1
  /\ pending' = {}
  /\ results' = NoResults
  /\ item' = NoItem
  /\ curOrder' = NoOrder
  /\ contactId' = NoId
  /\ lastReq' = NoReq
  /\ itemReqs' = <<>>
  /\ lastOutcome' = "none"
  /\ syncedBefore' = syncedSkus
  /\ callSkus' = {}
  /\ createdThisCall' = EmptyProducts
  /\ failedWrites' = 0
  /\ loadedSkus' = {}
  /\ indexComplete' = FALSE
  /\ UNCHANGED <<ledgerVars, cacheVars, noFail, syncedSkus>>
  /\ inFlight' = issue({}, issuedAt(pc', processed', batchLen'))
  /\ writesSent' = 0

\* vatRateMap.get(product.sitePrefix): the configured sites are S1
siteVatRateOf(prefix) ==
  IF prefix = Null THEN Null
  ELSE IF prefix = Some("S1") THEN Some(SiteVatRate) ELSE Null

\* variant: the tax rate is set on every payload
holdedProductTaxAlways(product, siteVatRate, existingId) ==
  [sku |-> product.sku,
   tax |-> Or(Or(siteVatRate, product.defaultVatRate), Some(DefaultVatRate))]

\* the payload of createOrUpdateProduct: tax only when there is no existing id
holdedProduct(product, siteVatRate, existingId) ==
  [sku |-> product.sku,
   tax |-> IF existingId = NoId
           THEN Or(Or(siteVatRate, product.defaultVatRate), Some(DefaultVatRate))
           ELSE Null]

\* variant: errors are not counted
countNoErrors(res, action) ==
  IF action = "error" THEN res ELSE [res EXCEPT ![action] = @ + 1]

\* results[result.action === 'error' ? 'errors' : result.action]++
count(res, action) ==
  [res EXCEPT ![IF action = "error" THEN "errors" ELSE action] = @ + 1]

\* variant: the id returned by the create is not stored
cacheCreatedNot(cache, sku, id) == cache

\* this.existingProducts.set(product.sku, { id: response.data.id })
cacheCreated(cache, sku, id) == [cache EXCEPT ![sku] = id]

\* variant: a failed write is sent once more
attemptsWithRetry(ok) == IF ok THEN 1 ELSE 2

\* the requests one write takes: the try sends it once and the catch of a
\* failed one returns the error without sending it again
attempts(ok) == 1

\* createOrUpdateProduct: the PUT or POST succeeded
ProductWritten(product) ==
  LET existingId == existingProducts[product.sku]
      payload == holdedProduct(product, siteVatRateOf(product.sitePrefix), existingId)
  IN  IF existingId # NoId
      THEN /\ lastReq' = Req("updateProduct", TRUE, payload.sku, existingId, payload.tax)
           /\ lastOutcome' = "updated"
           /\ results' = count(results, "updated")
           /\ UNCHANGED <<ledgerProducts, existingProducts, createdThisCall>>
      ELSE LET newId == ProductId(product.sku, ledgerProducts[product.sku] + 1)
           IN  /\ lastReq' = Req("createProduct", TRUE, payload.sku, newId, payload.tax)
               /\ ledgerProducts' = [ledgerProducts EXCEPT ![product.sku] = @ + 1]
               /\ existingProducts' = cacheCreated(existingProducts, product.sku, newId)
               /\ createdThisCall' = [createdThisCall EXCEPT ![product.sku] = newId]
               /\ lastOutcome' = "created"
               /\ results' = count(results, "created")

\* createOrUpdateProduct: the PUT or POST failed; the catch returns 'error'
ProductWriteFailed(product) ==
  LET existingId == existingProducts[product.sku]
      payload == holdedProduct(product, siteVatRateOf(product.sitePrefix), existingId)
  IN  /\ lastReq' = Req(IF existingId # NoId THEN "updateProduct" ELSE "createProduct",
                        FALSE, payload.sku, existingId, payload.tax)
      /\ lastOutcome' = "error"
      /\ results' = count(results, "error")
      /\ pc' = pc

\* one turn of the loop of syncProducts: createOrUpdateProduct, count, sleep
SyncProduct ==
  /\ pc = "productLoop"
  /\ processed < batchLen
  /\ \E product \in ProductInputs :
       /\ item' = product
       /\ callSkus' = callSkus \cup {product.sku}
       /\ \/ /\ ProductWritten(product)
             /\ syncedSkus' = syncedSkus \cup {product.sku}
             /\ UNCHANGED <<pc, noFail, failedWrites>>
          \/ /\ ProductWriteFailed(product)
             /\ noFail' = FALSE
             /\ failedWrites' = failedWrites + 1
             /\ UNCHANGED <<ledgerProducts, existingProducts, createdThisCall,
                            syncedSkus>>
  /\ processed' = processed + 1
  /\ itemReqs' = <<lastReq'>>
  /\ UNCHANGED <<ledgerFillers, ledgerContacts, existingContacts, salesChannels,
                 warehouses, paymentMethods, callKind, batchLen, page, pending, curOrder,
                 contactId, calls, syncedBefore>>
  /\ UNCHANGED loadedSkus
  /\ UNCHANGED indexComplete
  /\ inFlight' = issue(await(inFlight, "writeProduct"), issuedAt(pc', processed', batchLen'))
  /\ writesSent' = writesSent + attempts(lastReq'.ok)

\* the loop of syncProducts is over: return results
ReturnProducts ==
  /\ pc = "productLoop"
  /\ processed = batchLen
  /\ pc' = "returned"
  /\ UNCHANGED <<ledgerVars, cacheVars, callKind, batchLen, processed, page, pending, results, item,
                 curOrder, contactId, lastReq, itemReqs, lastOutcome, calls, historyVars>>
  /\ UNCHANGED loadedSkus
  /\ UNCHANGED indexComplete
  /\ UNCHANGED inFlight
  /\ UNCHANGED writesSent

\* ------------------------------------------------------------------------
\* syncOrders
\* ------------------------------------------------------------------------
\* what GET /saleschannels, /warehouses and /paymentmethods of this ledger hold
LedgerSalesChannels == {"shop"}
LedgerWarehouses == {}
LedgerPaymentMethods == {}

\* syncOrders(orders, docType, siteConfigs) is called: initialize() starts
\* its four loads at once
CallSyncOrders ==
  /\ pc \in {"idle", "returned"}
  /\ calls < MaxCalls
  /\ \E len \in 0..MaxBatch : batchLen' = len
  /\ pc' = "initialize"
  /\ callKind' = "syncOrders"
  /\ pending' = {"products", "salesChannels", "warehouses", "paymentMethods"}
  /\ calls' = calls + 1
  /\ processed' = 0
  /\ page' = 1
  /\ results' = NoResults
  /\ item' = NoItem
  /\ curOrder' = NoOrder
  /\ contactId' = NoId
  /\ lastReq' = NoReq
  /\ itemReqs' = <<>>
  /\ lastOutcome' = "none"
  /\ syncedBefore' = syncedSkus
  /\ callSkus' = {}
  /\ createdThisCall' = EmptyProducts
  /\ failedWrites' = 0
  /\ loadedSkus' = {}
  /\ indexComplete' = FALSE
  /\ UNCHANGED <<ledgerVars, cacheVars, noFail, syncedSkus>>
  /\ inFlight' = issue({}, {"listProducts", "listSalesChannels", "listWarehouses",
                           "listPaymentMethods"})
  /\ writesSent' = 0

\* a load of initialize() other than the product load has settled
LoadSettled(name, kind, ok) ==
  /\ pc = "initialize"
  /\ name \in pending
  /\ pending' = pending \ {name}
  /\ pc' = IF initialized(pending \ {name}) THEN "orderLoop" ELSE pc
  /\ lastReq' = Req(kind, ok, "", NoId, Null)
  /\ noFail' = (noFail /\ ok)
  /\ UNCHANGED <<ledgerVars, existingProducts, existingContacts, callKind, batchLen,
                 processed, page, results, item, curOrder, contactId, itemReqs,
                 lastOutcome, calls, syncedSkus, syncedBefore, callSkus,
                 createdThisCall, failedWrites>>
  /\ UNCHANGED loadedSkus
  /\ UNCHANGED indexComplete
  /\ inFlight' = issue(await(inFlight, kind), issuedAt(pc', processed', batchLen'))
  /\ UNCHANGED writesSent

LoadSalesChannels ==
  /\ LoadSettled("salesChannels", "listSalesChannels", TRUE)
  /\ salesChannels' = salesChannels \cup LedgerSalesChannels
  /\ UNCHANGED <<warehouses, paymentMethods>>

\* the catch of loadSalesChannels warns and returns
LoadSalesChannelsFailed ==
  /\ LoadSettled("salesChannels", "listSalesChannels", FALSE)
  /\ UNCHANGED <<salesChannels, warehouses, paymentMethods>>

LoadWarehouses ==
  /\ LoadSettled("warehouses", "listWarehouses", TRUE)
  /\ warehouses' = warehouses \cup LedgerWarehouses
  /\ UNCHANGED <<salesChannels, paymentMethods>>

LoadWarehousesFailed ==
  /\ LoadSettled("warehouses", "listWarehouses", FALSE)
  /\ UNCHANGED <<salesChannels, warehouses, paymentMethods>>

LoadPaymentMethods ==
  /\ LoadSettled("paymentMethods", "listPaymentMethods", TRUE)
  /\ paymentMethods' = paymentMethods \cup LedgerPaymentMethods
  /\ UNCHANGED <<salesChannels, warehouses>>

LoadPaymentMethodsFailed ==
  /\ LoadSettled("paymentMethods", "listPaymentMethods", FALSE)
  /\ UNCHANGED <<salesChannels, warehouses, paymentMethods>>

\* const key = customer.email || customer.name
contactKey(customer) == IF customer.email # "" THEN customer.email ELSE customer.name

\* findOrCreateContact returns without a request: no customer, an anonymous
\* customer, or a cached key
resolvedWithoutRequest(customer) ==
  \/ customer.isNull
  \/ customer.name = "" /\ customer.email = ""
  \/ existingContacts[contactKey(customer)] # NoId

\* variant: the VAT number is searched before the national id
nextSearchVatFirst(customer, st) ==
  IF st = "start" /\ customer.email # "" THEN "searchEmail"
  ELSE IF st \in {"start", "searchEmail"} /\ customer.vatNumber # "" THEN "searchVat"
  ELSE IF st \in {"start", "searchEmail", "searchVat"} /\ customer.dni # ""
       THEN "searchDni"
  ELSE "createContact"

\* the searches findOrCreateContact still has to make after stage st:
\* email, then dni, then vatNumber, each only if the customer has the value
nextSearch(customer, st) ==
  IF st = "start" /\ customer.email # "" THEN "searchEmail"
  ELSE IF st \in {"start", "searchEmail"} /\ customer.dni # "" THEN "searchDni"
  ELSE IF st \in {"start", "searchEmail", "searchDni"} /\ customer.vatNumber # ""
       THEN "searchVat"
  ELSE "createContact"

\* createInvoice starts for the next order: findOrCreateContact up to its
\* first request
StartInvoice ==
  /\ pc = "orderLoop"
  /\ processed < batchLen
  /\ \E o \in OrderInputs :
       /\ curOrder' = o
       /\ IF resolvedWithoutRequest(o.customer)
          THEN /\ contactId' = IF o.customer.isNull \/ (o.customer.name = "" /\ o.customer.email = "")
                               THEN NoId
                               ELSE existingContacts[contactKey(o.customer)]
               /\ pc' = "postDocument"
          ELSE /\ contactId' = NoId
               /\ pc' = nextSearch(o.customer, "start")
  /\ itemReqs' = <<>>
  /\ lastOutcome' = "none"
  /\ UNCHANGED <<ledgerVars, cacheVars, callKind, batchLen, processed, page, pending,
                 results, item, lastReq, calls, historyVars>>
  /\ UNCHANGED loadedSkus
  /\ UNCHANGED indexComplete
  /\ inFlight' = issue(inFlight, issuedAt(pc', processed', batchLen'))
  /\ UNCHANGED writesSent

\* variant: the resolved id is returned and not kept
cacheContactNot(cache, key, id) == cache

\* this.existingContacts.set(key, id)
cacheContact(cache, key, id) == [cache EXCEPT ![key] = id]

SearchField(st) ==
  IF st = "searchEmail" THEN "email" ELSE IF st = "searchDni" THEN "code" ELSE "vatnumber"

SearchValue(customer, st) ==
  IF st = "searchEmail" THEN customer.email
  ELSE IF st = "searchDni" THEN customer.dni ELSE customer.vatNumber

\* findOrCreateContact: a GET /contacts search is answered
SearchContactAnswered ==
  /\ pc \in {"searchEmail", "searchDni", "searchVat"}
  /\ LET customer == curOrder.customer
         existing == SearchContact(SearchField(pc), SearchValue(customer, pc))
         req == Req(pc, TRUE, "", NoId, Null)
     IN  /\ lastReq' = req
         /\ itemReqs' = Append(itemReqs, req)
         /\ IF existing # Null
            THEN /\ existingContacts' =
                      cacheContact(existingContacts, contactKey(customer), Val(existing).id)
                 /\ contactId' = Val(existing).id
                 /\ pc' = "postDocument"
            ELSE /\ pc' = nextSearch(customer, pc)
                 /\ UNCHANGED <<existingContacts, contactId>>
  /\ UNCHANGED <<ledgerVars, existingProducts, salesChannels, warehouses,
                 paymentMethods, callKind, batchLen, processed, page, pending, results,
                 item, curOrder, lastOutcome, calls, historyVars>>
  /\ UNCHANGED loadedSkus
  /\ UNCHANGED indexComplete
  /\ inFlight' = issue(await(inFlight, pc), issuedAt(pc', processed', batchLen'))
  /\ UNCHANGED writesSent

\* variant: the error of the request at stage st leaves createInvoice
afterContactFailureThrown(st) == "thrown"

\* catch (error) { warn; return null }: createInvoice goes on to build and
\* post its document, whichever request failed
afterContactFailure(st) == "postDocument"

\* findOrCreateContact: a request failed; the catch warns and returns null
ContactRequestFailed ==
  /\ pc \in {"searchEmail", "searchDni", "searchVat", "createContact"}
  /\ LET req == Req(pc, FALSE, "", NoId, Null)
     IN  /\ lastReq' = req
         /\ itemReqs' = Append(itemReqs, req)
  /\ contactId' = NoId
  /\ pc' = afterContactFailure(pc)
  /\ noFail' = FALSE
  /\ UNCHANGED <<ledgerVars, cacheVars, callKind, batchLen, processed, page, pending,
                 results, item, curOrder, lastOutcome, calls, syncedSkus,
                 syncedBefore, callSkus, createdThisCall, failedWrites>>
  /\ UNCHANGED loadedSkus
  /\ UNCHANGED indexComplete
  /\ inFlight' = issue(await(inFlight, pc), issuedAt(pc', processed', batchLen'))
  /\ UNCHANGED writesSent

\* findOrCreateContact: POST /contacts succeeded
CreateContact ==
  /\ pc = "createContact"
  /\ LET customer == curOrder.customer
         newId == ContactIdFor(customer)
         req == Req("createContact", TRUE, "", newId, Null)
     IN  /\ ledgerContacts' = ledgerContacts \cup
              {[id |-> newId, email |-> customer.email, code |-> customer.dni,
                vatnumber |-> customer.vatNumber]}
         /\ existingContacts' = cacheContact(existingContacts, contactKey(customer), newId)
         /\ contactId' = newId
         /\ lastReq' = req
         /\ itemReqs' = Append(itemReqs, req)
  /\ pc' = "postDocument"
  /\ UNCHANGED <<ledgerProducts, ledgerFillers, existingProducts, salesChannels,
                 warehouses, paymentMethods, callKind, batchLen, processed, page, pending,
                 results, item, curOrder, lastOutcome, calls, historyVars>>
  /\ UNCHANGED loadedSkus
  /\ UNCHANGED indexComplete
  /\ inFlight' = issue(await(inFlight, pc), issuedAt(pc', processed', batchLen'))
  /\ UNCHANGED writesSent

\* the loop of syncOrders takes the result of createInvoice: count, sleep
InvoiceDone(success) ==
  /\ lastOutcome' = IF success THEN "created" ELSE "error"
  /\ results' = count(results, IF success THEN "created" ELSE "error")
  /\ processed' = processed + 1
  /\ pc' = "orderLoop"

\* variant: the inline contact fields are sent with every customer
contactLinkageInlineAlways(id, customer) ==
  [contactId |-> id,
   contactCode |-> IF id = NoId THEN customer.vatNumber ELSE "",
   inline |-> ~customer.isNull]

\* the contact part of invoiceData: contactId when one was resolved,
\* contactCode when there is none and the customer has a VAT number, the
\* inline contact fields when there is none and the order has a customer
contactLinkage(id, customer) ==
  [contactId |-> id,
   contactCode |-> IF id = NoId THEN customer.vatNumber ELSE "",
   inline |-> id = NoId /\ ~customer.isNull]

\* the request POST /documents/{docType} of the current order
DocumentReq(ok) ==
  [Req("createDocument", ok, "", contactId, Null)
     EXCEPT !.link = contactLinkage(contactId, curOrder.customer)]

\* variant: the payment is sent whatever order.paid says
shouldPayAlways(order) == TRUE

\* if (invoiceId && order.paid !== false): the accepted document has an id;
\* paid is FALSE for false and TRUE for every other value
shouldPay(order) == order.paid

\* createInvoice: POST /documents/{docType} succeeded
PostDocument ==
  /\ pc = "postDocument"
  /\ LET req == DocumentReq(TRUE)
     IN  /\ lastReq' = req
         /\ itemReqs' = Append(itemReqs, req)
  /\ IF shouldPay(curOrder)
     THEN /\ pc' = "payDocument"
          /\ UNCHANGED <<lastOutcome, results, processed>>
     ELSE InvoiceDone(TRUE)
  /\ UNCHANGED <<ledgerVars, cacheVars, callKind, batchLen, page, pending, item, curOrder,
                 contactId, calls, historyVars>>
  /\ UNCHANGED loadedSkus
  /\ UNCHANGED indexComplete
  /\ inFlight' = issue(await(inFlight, "createDocument"), issuedAt(pc', processed', batchLen'))
  /\ writesSent' = writesSent + attempts(TRUE)

\* variant: the error of the POST is thrown on to syncOrders and its caller
PostDocumentUncaught ==
  /\ pc = "postDocument"
  /\ pc' = "thrown"
  /\ noFail' = FALSE
  /\ failedWrites' = failedWrites + 1
  /\ UNCHANGED <<ledgerVars, cacheVars, callKind, batchLen, processed, page, pending,
                 results, item, curOrder, contactId, lastReq, itemReqs,
                 lastOutcome, calls, syncedSkus, syncedBefore, callSkus,
                 createdThisCall>>
  /\ UNCHANGED loadedSkus
  /\ UNCHANGED indexComplete
  /\ inFlight' = await(inFlight, "createDocument")
  /\ writesSent' = writesSent + 1

\* createInvoice: POST /documents/{docType} failed; the catch returns
\* { success: false }
PostDocumentFailed ==
  /\ pc = "postDocument"
  /\ LET req == DocumentReq(FALSE)
     IN  /\ lastReq' = req
         /\ itemReqs' = Append(itemReqs, req)
  /\ InvoiceDone(FALSE)
  /\ noFail' = FALSE
  /\ failedWrites' = failedWrites + 1
  /\ UNCHANGED <<ledgerVars, cacheVars, callKind, batchLen, page, pending, item, curOrder,
                 contactId, calls, syncedSkus, syncedBefore, callSkus,
                 createdThisCall>>
  /\ UNCHANGED loadedSkus
  /\ UNCHANGED indexComplete
  /\ inFlight' = issue(await(inFlight, "createDocument"), issuedAt(pc', processed', batchLen'))
  /\ writesSent' = writesSent + attempts(FALSE)

\* variant: a payment that fails makes createInvoice report a failure
successAfterPayStrict(paidOk) == paidOk

\* what createInvoice reports once payDocument has returned: payDocument
\* catches its own error, so { success: true, invoiceId } either way
successAfterPay(paidOk) == TRUE

\* payDocument: POST .../pay settled; a failure is caught and warned about
PayDocument ==
  /\ pc = "payDocument"
  /\ \E ok \in BOOLEAN :
       LET req == Req("payDocument", ok, "", NoId, Null)
       IN  /\ lastReq' = req
           /\ itemReqs' = Append(itemReqs, req)
           /\ noFail' = (noFail /\ ok)
           /\ InvoiceDone(successAfterPay(ok))
  /\ UNCHANGED <<ledgerVars, cacheVars, callKind, batchLen, page, pending, item, curOrder,
                 contactId, calls, syncedSkus, syncedBefore, callSkus,
                 createdThisCall, failedWrites>>
  /\ UNCHANGED loadedSkus
  /\ UNCHANGED indexComplete
  /\ inFlight' = issue(await(inFlight, "payDocument"), issuedAt(pc', processed', batchLen'))
  /\ UNCHANGED writesSent

\* the loop of syncOrders is over: return results
ReturnOrders ==
  /\ pc = "orderLoop"
  /\ processed = batchLen
  /\ pc' = "returned"
  /\ UNCHANGED <<ledgerVars, cacheVars, callKind, batchLen, processed, page, pending,
                 results, item, curOrder, contactId, lastReq, itemReqs,
                 lastOutcome, calls, historyVars>>
  /\ UNCHANGED loadedSkus
  /\ UNCHANGED indexComplete
  /\ UNCHANGED inFlight
  /\ UNCHANGED writesSent

\* ------------------------------------------------------------------------
\* Tax and price arithmetic of createInvoice and createOrUpdateProduct
\* ------------------------------------------------------------------------
\* A tax code is a string, held as its sequence of tokens: the literal
\* "s_iva_", single digits, and other text.  "s_iva_21" is <<"s_iva_", "2", "1">>.
DigitChars == <<"0", "1", "2", "3", "4", "5", "6", "7", "8", "9">>

Digits == Range(DigitChars)

DigitValue(d) == (CHOOSE k \in 1..10 : DigitChars[k] = d) - 1

TaxCodes ==
  { <<"s_iva_", "2", "1">>, <<"s_iva_", "1", "0">>, <<"s_iva_", "0">>,
    <<"s_igic_", "7">>, <<"s_iva_">>, <<"e", "s_iva_", "4", "_b">> }

\* the digits of code from position i on, up to the first token that is not
\* a digit: the group (\d+)
RECURSIVE digitRun(_, _)
digitRun(code, i) ==
  IF i > Len(code) \/ code[i] \notin Digits THEN <<>>
  ELSE <<code[i]>> \o digitRun(code, i + 1)

\* taxCode.match(/s_iva_(\d+)/): the captured digits of the first match
match(taxCode) ==
  LET hits == {i \in 1..Len(taxCode) :
                 taxCode[i] = "s_iva_" /\ digitRun(taxCode, i + 1) # <<>>}
  IN  IF hits = {} THEN Null
      ELSE Some(digitRun(taxCode, (CHOOSE i \in hits : \A j \in hits : i <= j) + 1))

\* parseInt of a string of decimal digits
RECURSIVE parseInt(_)
parseInt(digits) ==
  IF digits = <<>> THEN 0
  ELSE 10 * parseInt(SubSeq(digits, 1, Len(digits) - 1)) + DigitValue(digits[Len(digits)])

\* an entry of existingProducts: none, or { id, taxes } as loaded from the
\* ledger, or { id } as stored after a create (no taxes field)
CacheEntries ==
  {Null} \cup {Some([id |-> ProductId("a", 1), taxes |-> t]) :
                 t \in {Null, Some(<<>>), Some(<<<<"s_iva_", "2", "1">>, <<"s_iva_", "1", "0">>>>)}
                       \cup {Some(<<c>>) : c \in TaxCodes}}

\* the rate parsed from taxes[0] of a cache entry, when it has taxes and the
\* code parses
taxOfEntry(entry) ==
  IF entry = Null THEN Null
  ELSE LET taxes == Val(entry).taxes
       IN  IF taxes = Null \/ Val(taxes) = <<>> THEN Null
           ELSE LET m == match(Val(taxes)[1])
                IN  IF m = Null THEN Null ELSE Some(parseInt(Val(m)))

\* productVatRate !== null ? productVatRate
\*                         : (item.taxRate || siteVatRate || defaultVatRate)
effectiveTaxRate(entry, line, siteVatRate) ==
  LET productVatRate == taxOfEntry(entry)
  IN  IF productVatRate # Null THEN Val(productVatRate)
      ELSE Val(Or(Or(line.taxRate, siteVatRate), Some(DefaultVatRate)))

\* amounts are exact fractions num / den of a cent
Frac(n, d) == [num |-> n, den |-> d]

\* item.totalWithTax / item.quantity
unitPriceWithTax(line) == Frac(line.totalWithTax, line.quantity)

\* variant: the tax is not taken out of the unit price
calculatedSubtotalGross(line, rate) == unitPriceWithTax(line)

\* effectiveTaxRate > 0 ? unitPriceWithTax / (1 + effectiveTaxRate / 100)
\*                      : unitPriceWithTax
calculatedSubtotal(line, rate) ==
  LET u == unitPriceWithTax(line)
  IN  IF rate > 0 THEN Frac(u.num * 100, u.den * (100 + rate)) ELSE u

\* one element of invoiceData.items
invoiceItem(entry, line, siteVatRate) ==
  LET rate == effectiveTaxRate(entry, line, siteVatRate)
  IN  [units |-> line.quantity,
       subtotal |-> calculatedSubtotal(line, rate),
       tax |-> rate]

\* variant: the tax code of the ledger product is not looked at
vatRateForCalcIgnoringLedger(product, entry, siteVatRate) ==
  Val(Or(Or(siteVatRate, product.defaultVatRate), Some(DefaultVatRate)))

\* siteVatRate || product.defaultVatRate || config.sync.defaultVatRate,
\* replaced by the rate of the ledger product's tax code when it parses
vatRateForCalc(product, entry, siteVatRate) ==
  LET t == taxOfEntry(entry)
  IN  IF t # Null THEN Val(t)
      ELSE Val(Or(Or(siteVatRate, product.defaultVatRate), Some(DefaultVatRate)))

\* Math.round(n / d) for n >= 0 and d > 0: halves go up
roundHalfUp(n, d) == (2 * n + d) \div (2 * d)

\* the price sent, in thousandths of the currency unit:
\* Math.round((price / (1 + rate / 100)) * 100) / 100 when the source prices
\* include tax and the rate is positive, the source price otherwise
netPrice(product, rate) ==
  IF product.pricesIncludeTax /\ rate > 0
  THEN 10 * roundHalfUp(product.price * 10, 100 + rate)
  ELSE product.price

\* price and tax of the payload of createOrUpdateProduct
pricedProduct(product, entry, siteVatRate) ==
  LET existingId == IF entry = Null THEN NoId ELSE Val(entry).id
  IN  [price |-> netPrice(product, vatRateForCalc(product, entry, siteVatRate)),
       tax |-> holdedProduct(product, siteVatRate, existingId).tax]

\* inputs of the two computations
LineInputs ==
  [taxRate : {Null, Some(0), Some(10), Some(21)},
   totalWithTax : {1, 1000, 12100},
   quantity : 1..MaxQuantity]

SiteRates == {Null, Some(0), Some(10)}

PricedProducts ==
  [sku : {"a"}, defaultVatRate : {Null, Some(21)},
   price : {0, 1005, 9990, 121000}, pricesIncludeTax : BOOLEAN]

NoLine == [taxRate |-> Null, totalWithTax |-> 0, quantity |-> 1]
NoInvoiceItem == [units |-> 0, subtotal |-> Frac(0, 1), tax |-> 0]
NoPricedProduct ==
  [sku |-> "", defaultVatRate |-> Null, price |-> 0, pricesIncludeTax |-> FALSE]
NoPayload == [price |-> 0, tax |-> Null]

CalcAtRest ==
  /\ calcPc = "none"
  /\ calcEntry = Null
  /\ calcSite = Null
  /\ calcLine = NoLine
  /\ calcItem = NoInvoiceItem
  /\ calcProduct = NoPricedProduct
  /\ calcPayload = NoPayload

\* createInvoice maps one order line to an element of invoiceData.items
BuildInvoiceItem ==
  \E entry \in CacheEntries, line \in LineInputs, site \in SiteRates :
    /\ calcPc' = "line"
    /\ calcEntry' = entry
    /\ calcSite' = site
    /\ calcLine' = line
    /\ calcItem' = invoiceItem(entry, line, site)
    /\ calcProduct' = NoPricedProduct
    /\ calcPayload' = NoPayload

\* createOrUpdateProduct builds the payload of one product
BuildProductPayload ==
  \E entry \in CacheEntries, product \in PricedProducts, site \in SiteRates :
    /\ calcPc' = "product"
    /\ calcEntry' = entry
    /\ calcSite' = site
    /\ calcProduct' = product
    /\ calcPayload' = pricedProduct(product, entry, site)
    /\ calcLine' = NoLine
    /\ calcItem' = NoInvoiceItem

\* ------------------------------------------------------------------------
\* The documents of the ledger
\* ------------------------------------------------------------------------
\* orders are told apart by their id
OrderIds == {1, 2}

\* neither a sales channel nor a warehouse
NoHints == [salesChannel |-> Null, warehouse |-> Null]

DocsAtRest ==
  /\ ledgerDocuments = [o \in OrderIds |-> 0]
  /\ curOrderId = 0
  /\ curHints = NoHints
  /\ docHints = NoHints
  /\ channelsFailed = FALSE

\* variant: no document is created for an order the ledger has one for
postDocumentOnce(docs, id) ==
  IF docs[id] > 0 THEN docs ELSE [docs EXCEPT ![id] = 1]

\* this.client.post(`/documents/${docType}`, invoiceData), sent for every
\* order without looking for an earlier document: the ledger holds one more
postDocument(docs, id) == [docs EXCEPT ![id] = @ + 1]

\* createInvoice takes the next order of the list, which has an id
StartInvoiceOf ==
  /\ StartInvoice
  /\ \E id \in OrderIds : curOrderId' = id
  /\ UNCHANGED <<ledgerDocuments, curHints, docHints, channelsFailed>>

\* the ledger accepts the document of the current order
PostDocumentOf ==
  /\ PostDocument
  /\ ledgerDocuments' = postDocument(ledgerDocuments, curOrderId)
  /\ UNCHANGED <<curOrderId, curHints, docHints, channelsFailed>>

\* ------------------------------------------------------------------------
\* The optional hints of a document payload
\* ------------------------------------------------------------------------
\* the names an order may carry: "shop" is a sales channel of the ledger,
\* "pos" and "attic" are names the ledger does not hold
HintInputs == [salesChannel : {Null, Some("shop"), Some("pos")},
               warehouse : {Null, Some("attic")}]

\* ...(order.salesChannel && this.salesChannels.has(order.salesChannel) &&
\*     { salesChannel: this.salesChannels.get(order.salesChannel) })
\* the id of a channel is told by its name
hint(name, cache) == IF name # Null /\ Val(name) \in cache THEN name ELSE Null

payloadHints(order) ==
  [salesChannel |-> hint(order.salesChannel, salesChannels),
   warehouse |-> hint(order.warehouse, warehouses)]

\* syncOrders is called
CallSyncOrdersWith ==
  /\ CallSyncOrders
  /\ curHints' = NoHints
  /\ docHints' = NoHints
  /\ channelsFailed' = FALSE
  /\ UNCHANGED <<ledgerDocuments, curOrderId>>

\* GET /saleschannels throws, caught by loadSalesChannels
LoadSalesChannelsFailedWith ==
  /\ LoadSalesChannelsFailed
  /\ channelsFailed' = TRUE
  /\ UNCHANGED <<ledgerDocuments, curOrderId, curHints, docHints>>

\* createInvoice takes the next order of the list, with its hints
StartInvoiceWith ==
  /\ StartInvoice
  /\ \E h \in HintInputs : curHints' = h
  /\ docHints' = NoHints
  /\ UNCHANGED <<ledgerDocuments, curOrderId, channelsFailed>>

\* the document payload is built and posted, and the ledger accepts it
PostDocumentWith ==
  /\ PostDocument
  /\ docHints' = payloadHints(curHints)
  /\ UNCHANGED <<ledgerDocuments, curOrderId, curHints, channelsFailed>>

\* the document payload is built and posted, and the request fails
PostDocumentFailedWith ==
  /\ PostDocumentFailed
  /\ docHints' = payloadHints(curHints)
  /\ UNCHANGED <<ledgerDocuments, curOrderId, curHints, channelsFailed>>

\* ------------------------------------------------------------------------
\* The source adapters: fetchAllWooCommerceProducts, fetchAllWooCommerceOrders
\* and fetchSumUpTransactions, as main() calls them
\* ------------------------------------------------------------------------
\* config.woocommerce, in order
Sites == <<"site1", "site2">>

Sources == Range(Sites) \cup {"sumup"}

\* the n records a source holds, normalised, in the order the source lists them
RecordsOf(source, n) == [i \in 1..n |-> [source |-> source, id |-> i]]

\* variant: the catch of the loop over the sites throws the error on
pushSiteRethrown(acc, records, ok) ==
  [records |-> IF ok THEN acc \o records ELSE acc, thrown |-> ~ok]

\* try { allOrders.push(...await client.getOrders(...)) } catch { log }
pushSite(acc, records, ok) ==
  [records |-> IF ok THEN acc \o records ELSE acc, thrown |-> FALSE]

\* try { return await client.getTransactions(...) } catch { log; return [] }
sumupResult(records, ok) == IF ok THEN records ELSE <<>>

SourcesAtRest ==
  /\ srcKind = "orders"
  /\ srcHeld = [s \in Sources |-> 0]
  /\ srcSite = 0
  /\ wcRecords = <<>>
  /\ sumupRecords = Null
  /\ srcFailed = {}
  /\ srcThrown = FALSE
  /\ fetched = Null

InitSources ==
  /\ srcKind \in {"products", "orders"}
  /\ srcHeld \in [Sources -> 0..MaxSourceRecords]
  /\ srcSite = 0
  /\ wcRecords = <<>>
  /\ sumupRecords = Null
  /\ srcFailed = {}
  /\ srcThrown = FALSE
  /\ fetched = Null

\* one turn of the loop over the sites: getAllProducts / getOrders of the
\* site returns its records, or throws on a failed page
FetchSite ==
  /\ fetched = Null
  /\ ~srcThrown
  /\ srcSite < Len(Sites)
  /\ \E ok \in BOOLEAN :
       LET site == Sites[srcSite + 1]
           r == pushSite(wcRecords, RecordsOf(site, srcHeld[site]), ok)
       IN  /\ wcRecords' = r.records
           /\ srcThrown' = r.thrown
           /\ srcFailed' = IF ok THEN srcFailed ELSE srcFailed \cup {site}
  /\ srcSite' = srcSite + 1
  /\ UNCHANGED <<srcKind, srcHeld, sumupRecords, fetched>>

\* fetchSumUpTransactions, run next to the fetch of the orders by Promise.all
FetchSumUp ==
  /\ fetched = Null
  /\ ~srcThrown
  /\ srcKind = "orders"
  /\ sumupRecords = Null
  /\ \E ok \in BOOLEAN :
       /\ sumupRecords' = Some(sumupResult(RecordsOf("sumup", srcHeld["sumup"]), ok))
       /\ srcFailed' = IF ok THEN srcFailed ELSE srcFailed \cup {"sumup"}
  /\ UNCHANGED <<srcKind, srcHeld, srcSite, wcRecords, srcThrown, fetched>>

\* const allProducts = await fetchAllWooCommerceProducts(config.woocommerce)
ReturnFetchedProducts ==
  /\ fetched = Null
  /\ ~srcThrown
  /\ srcKind = "products"
  /\ srcSite = Len(Sites)
  /\ fetched' = Some(wcRecords)
  /\ UNCHANGED <<srcKind, srcHeld, srcSite, wcRecords, sumupRecords, srcFailed,
                 srcThrown>>

\* const allOrders = [...wcOrders, ...sumupTransactions]
ReturnFetchedOrders ==
  /\ fetched = Null
  /\ ~srcThrown
  /\ srcKind = "orders"
  /\ srcSite = Len(Sites)
  /\ sumupRecords # Null
  /\ fetched' = Some(wcRecords \o Val(sumupRecords))
  /\ UNCHANGED <<srcKind, srcHeld, srcSite, wcRecords, sumupRecords, srcFailed,
                 srcThrown>>

\* ------------------------------------------------------------------------
\* main() of index.js, as far as the exit status decides it
\* ------------------------------------------------------------------------
NoResultErrors == [products |-> NoErrors, orders |-> NoErrors]

\* const syncProducts = args.products || (!args.products && !args.sales)
syncProductsFlag(args) == args.products \/ (~args.products /\ ~args.sales)

\* const syncSales = args.sales || (!args.products && !args.sales)
syncSalesFlag(args) == args.sales \/ (~args.products /\ ~args.sales)

\* variant: only the errors of the orders are summed
totalErrorsOfOrders(res) ==
  res.orders.primary + res.orders.secondary

\* const totalErrors = results.products.primary.errors + ... +
\*                     results.orders.secondary.errors
totalErrors(res) ==
  res.products.primary + res.products.secondary +
  res.orders.primary + res.orders.secondary

ExitAtRest ==
  /\ mainArgs = [products |-> FALSE, sales |-> FALSE, help |-> FALSE]
  /\ configValid = TRUE
  /\ exitPc = "start"
  /\ resultErrors = NoResultErrors
  /\ mainThrown = FALSE
  /\ exitCode = Null

InitExit ==
  /\ mainArgs \in [products : BOOLEAN, sales : BOOLEAN, help : BOOLEAN]
  /\ configValid \in BOOLEAN
  /\ exitPc = "start"
  /\ resultErrors = NoResultErrors
  /\ mainThrown = FALSE
  /\ exitCode = Null

\* if (args.help) { printHelp(); process.exit(0) }
MainHelp ==
  /\ exitPc = "start"
  /\ mainArgs.help
  /\ exitCode' = Some(0)
  /\ exitPc' = "exited"
  /\ UNCHANGED <<mainArgs, configValid, resultErrors, mainThrown>>

\* validateConfig(): process.exit(1) on a configuration error
MainValidateConfig ==
  /\ exitPc = "start"
  /\ ~mainArgs.help
  /\ IF configValid
     THEN /\ exitPc' = "products"
          /\ UNCHANGED exitCode
     ELSE /\ exitPc' = "exited"
          /\ exitCode' = Some(1)
  /\ UNCHANGED <<mainArgs, configValid, resultErrors, mainThrown>>

\* the products block: the error counts of the syncProducts calls on the
\* primary and the secondary ledger, 0 for a call that is not made
MainProductsBlock ==
  /\ exitPc = "products"
  /\ IF syncProductsFlag(mainArgs)
     THEN \E p \in 0..MaxBatch, q \in 0..MaxBatch :
            resultErrors' = [resultErrors EXCEPT !.products =
                               [primary |-> p, secondary |-> q]]
     ELSE UNCHANGED resultErrors
  /\ exitPc' = "sales"
  /\ UNCHANGED <<mainArgs, configValid, mainThrown, exitCode>>

\* the sales block: the error counts of the syncOrders calls
MainSalesBlock ==
  /\ exitPc = "sales"
  /\ IF syncSalesFlag(mainArgs)
     THEN \E p \in 0..MaxBatch, q \in 0..MaxBatch :
            resultErrors' = [resultErrors EXCEPT !.orders =
                               [primary |-> p, secondary |-> q]]
     ELSE UNCHANGED resultErrors
  /\ exitPc' = "summary"
  /\ UNCHANGED <<mainArgs, configValid, mainThrown, exitCode>>

\* a statement of the try block throws: catch (error) { ...; process.exit(1) }
MainThrows ==
  /\ exitPc \in {"products", "sales", "summary"}
  /\ mainThrown' = TRUE
  /\ exitCode' = Some(1)
  /\ exitPc' = "exited"
  /\ UNCHANGED <<mainArgs, configValid, resultErrors>>

\* if (totalErrors > 0) process.exit(1); otherwise main() returns and the
\* process ends with status 0
MainSummary ==
  /\ exitPc = "summary"
  /\ exitCode' = Some(IF totalErrors(resultErrors) > 0 THEN 1 ELSE 0)
  /\ exitPc' = "exited"
  /\ UNCHANGED <<mainArgs, configValid, resultErrors, mainThrown>>

RouterAtRest ==
  /\ secondarySkus = {}
  /\ excludedSkus = {}
  /\ excludedEnv = {}
  /\ mainPc = "start"
  /\ allProducts = <<>>
  /\ routedProducts = None
  /\ allOrders = <<>>
  /\ routedOrders = None
  /\ orderErrors = NoErrors
  /\ errorOrderIds = {}
  /\ productWrites = NoRequests
  /\ openProductWrites = NoRequests
  /\ documentCreates = NoRequests

Init == InitClient /\ RouterAtRest /\ CalcAtRest /\ DocsAtRest /\ SourcesAtRest /\ ExitAtRest

Next ==
  \/ (NewClient /\ UNCHANGED <<routerVars, calcVars, docVars, sourceVars, exitVars>>)
  \/ (CallSyncProducts /\ UNCHANGED <<routerVars, calcVars, docVars, sourceVars, exitVars>>)
  \/ (LoadProductsPage /\ UNCHANGED <<routerVars, calcVars, docVars, sourceVars, exitVars>>)
  \/ (LoadProductsPageFailed /\ UNCHANGED <<routerVars, calcVars, docVars, sourceVars, exitVars>>)
  \/ (SyncProduct /\ UNCHANGED <<routerVars, calcVars, docVars, sourceVars, exitVars>>)
  \/ (ReturnProducts /\ UNCHANGED <<routerVars, calcVars, docVars, sourceVars, exitVars>>)
  \/ (CallSyncOrders /\ UNCHANGED <<routerVars, calcVars, docVars, sourceVars, exitVars>>)
  \/ (LoadSalesChannels /\ UNCHANGED <<routerVars, calcVars, docVars, sourceVars, exitVars>>)
  \/ (LoadSalesChannelsFailed /\ UNCHANGED <<routerVars, calcVars, docVars, sourceVars, exitVars>>)
  \/ (LoadWarehouses /\ UNCHANGED <<routerVars, calcVars, docVars, sourceVars, exitVars>>)
  \/ (LoadWarehousesFailed /\ UNCHANGED <<routerVars, calcVars, docVars, sourceVars, exitVars>>)
  \/ (LoadPaymentMethods /\ UNCHANGED <<routerVars, calcVars, docVars, sourceVars, exitVars>>)
  \/ (LoadPaymentMethodsFailed /\ UNCHANGED <<routerVars, calcVars, docVars, sourceVars, exitVars>>)
  \/ (StartInvoice /\ UNCHANGED <<routerVars, calcVars, docVars, sourceVars, exitVars>>)
  \/ (SearchContactAnswered /\ UNCHANGED <<routerVars, calcVars, docVars, sourceVars, exitVars>>)
  \/ (ContactRequestFailed /\ UNCHANGED <<routerVars, calcVars, docVars, sourceVars, exitVars>>)
  \/ (CreateContact /\ UNCHANGED <<routerVars, calcVars, docVars, sourceVars, exitVars>>)
  \/ (PostDocument /\ UNCHANGED <<routerVars, calcVars, docVars, sourceVars, exitVars>>)
  \/ (PostDocumentFailed /\ UNCHANGED <<routerVars, calcVars, docVars, sourceVars, exitVars>>)
  \/ (PayDocument /\ UNCHANGED <<routerVars, calcVars, docVars, sourceVars, exitVars>>)
  \/ (ReturnOrders /\ UNCHANGED <<routerVars, calcVars, docVars, sourceVars, exitVars>>)

Spec == Init /\ [][Next]_vars

\* main() with the ledger client left aside
ClientAtRest ==
  /\ InitClient
  /\ ledgerProducts = [s \in ClientSkus |-> 0]
  /\ ledgerFillers = 0

InitMain == InitRouter /\ ClientAtRest /\ CalcAtRest /\ DocsAtRest /\ SourcesAtRest /\ ExitAtRest

NextRouter ==
  \/ (MainFetchProducts /\ UNCHANGED <<clientVars, calcVars, docVars, sourceVars, exitVars>>)
  \/ (MainRouteProducts /\ UNCHANGED <<clientVars, calcVars, docVars, sourceVars, exitVars>>)
  \/ (MainSyncPrimaryProducts /\ UNCHANGED <<clientVars, calcVars, docVars, sourceVars, exitVars>>)
  \/ (MainSyncSecondaryProducts /\ UNCHANGED <<clientVars, calcVars, docVars, sourceVars, exitVars>>)
  \/ (MainFetchOrders /\ UNCHANGED <<clientVars, calcVars, docVars, sourceVars, exitVars>>)
  \/ (MainRouteOrders /\ UNCHANGED <<clientVars, calcVars, docVars, sourceVars, exitVars>>)
  \/ (MainSyncPrimaryOrders /\ UNCHANGED <<clientVars, calcVars, docVars, sourceVars, exitVars>>)
  \/ (MainSyncSecondaryOrders /\ UNCHANGED <<clientVars, calcVars, docVars, sourceVars, exitVars>>)

SpecRouter == InitMain /\ [][NextRouter]_vars

\* the two computations on their own, for every input
InitCalc == ClientAtRest /\ RouterAtRest /\ CalcAtRest /\ DocsAtRest /\ SourcesAtRest /\ ExitAtRest

NextCalc ==
  \/ (BuildInvoiceItem /\ UNCHANGED <<routerVars, clientVars, docVars, sourceVars, exitVars>>)
  \/ (BuildProductPayload /\ UNCHANGED <<routerVars, clientVars, docVars, sourceVars, exitVars>>)

SpecCalc == InitCalc /\ [][NextCalc]_vars

\* syncOrders against a ledger whose documents are counted per order
NextDocs ==
  \/ (StartInvoiceOf /\ UNCHANGED <<routerVars, calcVars, sourceVars, exitVars>>)
  \/ (PostDocumentOf /\ UNCHANGED <<routerVars, calcVars, sourceVars, exitVars>>)
  \/ (CallSyncOrders /\ UNCHANGED <<routerVars, calcVars, docVars, sourceVars, exitVars>>)
  \/ (LoadProductsPage /\ UNCHANGED <<routerVars, calcVars, docVars, sourceVars, exitVars>>)
  \/ (LoadProductsPageFailed /\ UNCHANGED <<routerVars, calcVars, docVars, sourceVars, exitVars>>)
  \/ (LoadSalesChannels /\ UNCHANGED <<routerVars, calcVars, docVars, sourceVars, exitVars>>)
  \/ (LoadSalesChannelsFailed /\ UNCHANGED <<routerVars, calcVars, docVars, sourceVars, exitVars>>)
  \/ (LoadWarehouses /\ UNCHANGED <<routerVars, calcVars, docVars, sourceVars, exitVars>>)
  \/ (LoadWarehousesFailed /\ UNCHANGED <<routerVars, calcVars, docVars, sourceVars, exitVars>>)
  \/ (LoadPaymentMethods /\ UNCHANGED <<routerVars, calcVars, docVars, sourceVars, exitVars>>)
  \/ (LoadPaymentMethodsFailed /\ UNCHANGED <<routerVars, calcVars, docVars, sourceVars, exitVars>>)
  \/ (SearchContactAnswered /\ UNCHANGED <<routerVars, calcVars, docVars, sourceVars, exitVars>>)
  \/ (ContactRequestFailed /\ UNCHANGED <<routerVars, calcVars, docVars, sourceVars, exitVars>>)
  \/ (CreateContact /\ UNCHANGED <<routerVars, calcVars, docVars, sourceVars, exitVars>>)
  \/ (PostDocumentFailed /\ UNCHANGED <<routerVars, calcVars, docVars, sourceVars, exitVars>>)
  \/ (PayDocument /\ UNCHANGED <<routerVars, calcVars, docVars, sourceVars, exitVars>>)
  \/ (ReturnOrders /\ UNCHANGED <<routerVars, calcVars, docVars, sourceVars, exitVars>>)

InitDocs == ClientAtRest /\ RouterAtRest /\ CalcAtRest /\ DocsAtRest /\ SourcesAtRest /\ ExitAtRest

SpecDocs == InitDocs /\ [][NextDocs]_vars

\* syncOrders over orders that carry a sales channel and a warehouse
NextHints ==
  \/ (CallSyncOrdersWith /\ UNCHANGED <<routerVars, calcVars, sourceVars, exitVars>>)
  \/ (LoadSalesChannelsFailedWith /\ UNCHANGED <<routerVars, calcVars, sourceVars, exitVars>>)
  \/ (StartInvoiceWith /\ UNCHANGED <<routerVars, calcVars, sourceVars, exitVars>>)
  \/ (PostDocumentWith /\ UNCHANGED <<routerVars, calcVars, sourceVars, exitVars>>)
  \/ (PostDocumentFailedWith /\ UNCHANGED <<routerVars, calcVars, sourceVars, exitVars>>)
  \/ (LoadProductsPage /\ UNCHANGED <<routerVars, calcVars, docVars, sourceVars, exitVars>>)
  \/ (LoadProductsPageFailed /\ UNCHANGED <<routerVars, calcVars, docVars, sourceVars, exitVars>>)
  \/ (LoadSalesChannels /\ UNCHANGED <<routerVars, calcVars, docVars, sourceVars, exitVars>>)
  \/ (LoadWarehouses /\ UNCHANGED <<routerVars, calcVars, docVars, sourceVars, exitVars>>)
  \/ (LoadWarehousesFailed /\ UNCHANGED <<routerVars, calcVars, docVars, sourceVars, exitVars>>)
  \/ (LoadPaymentMethods /\ UNCHANGED <<routerVars, calcVars, docVars, sourceVars, exitVars>>)
  \/ (LoadPaymentMethodsFailed /\ UNCHANGED <<routerVars, calcVars, docVars, sourceVars, exitVars>>)
  \/ (SearchContactAnswered /\ UNCHANGED <<routerVars, calcVars, docVars, sourceVars, exitVars>>)
  \/ (ContactRequestFailed /\ UNCHANGED <<routerVars, calcVars, docVars, sourceVars, exitVars>>)
  \/ (CreateContact /\ UNCHANGED <<routerVars, calcVars, docVars, sourceVars, exitVars>>)
  \/ (PayDocument /\ UNCHANGED <<routerVars, calcVars, docVars, sourceVars, exitVars>>)
  \/ (ReturnOrders /\ UNCHANGED <<routerVars, calcVars, docVars, sourceVars, exitVars>>)

SpecHints == InitDocs /\ [][NextHints]_vars

\* the fetch of the records of one phase of main()
InitFetch == ClientAtRest /\ RouterAtRest /\ CalcAtRest /\ DocsAtRest /\ InitSources /\ ExitAtRest

NextFetch ==
  \/ (FetchSite /\ UNCHANGED <<routerVars, clientVars, calcVars, docVars, exitVars>>)
  \/ (FetchSumUp /\ UNCHANGED <<routerVars, clientVars, calcVars, docVars, exitVars>>)
  \/ (ReturnFetchedProducts /\ UNCHANGED <<routerVars, clientVars, calcVars, docVars, exitVars>>)
  \/ (ReturnFetchedOrders /\ UNCHANGED <<routerVars, clientVars, calcVars, docVars, exitVars>>)

SpecFetch == InitFetch /\ [][NextFetch]_vars

\* main() from its arguments to its exit status
InitMainExit ==
  ClientAtRest /\ RouterAtRest /\ CalcAtRest /\ DocsAtRest /\ SourcesAtRest /\ InitExit

NextExit ==
  \/ (MainHelp /\ UNCHANGED <<routerVars, clientVars, calcVars, docVars, sourceVars>>)
  \/ (MainValidateConfig /\ UNCHANGED <<routerVars, clientVars, calcVars, docVars, sourceVars>>)
  \/ (MainProductsBlock /\ UNCHANGED <<routerVars, clientVars, calcVars, docVars, sourceVars>>)
  \/ (MainSalesBlock /\ UNCHANGED <<routerVars, clientVars, calcVars, docVars, sourceVars>>)
  \/ (MainThrows /\ UNCHANGED <<routerVars, clientVars, calcVars, docVars, sourceVars>>)
  \/ (MainSummary /\ UNCHANGED <<routerVars, clientVars, calcVars, docVars, sourceVars>>)

SpecExit == InitMainExit /\ [][NextExit]_vars

\* ------------------------------------------------------------------------
\* Routing properties (SpecRouter)
\* ------------------------------------------------------------------------
\* a SKU equals a configured excluded SKU, compared case-insensitively
ExcludedByEnv(sku) == \E e \in excludedEnv : toLowerCase(sku) = toLowerCase(e)

InList(rec, list) == \E i \in 1..Len(list) : list[i] = rec

Occurrences(id, list) == Cardinality({i \in 1..Len(list) : list[i].id = id})

\* the items of an input order that are not excluded, in input order
SurvivingItems(order) ==
  LET keep == {i \in 1..Len(order.items) : ~ExcludedByEnv(order.items[i])}
      Rank(i) == Cardinality({j \in keep : j <= i})
  IN  [k \in 1..Cardinality(keep) |->
         order.items[CHOOSE i \in keep : Rank(i) = k]]

ProductsRouted == mainPc \in {"productsRouted", "primaryProductsSynced", "productsSynced"}
OrdersRouted == mainPc \in {"ordersRouted", "primaryOrdersSynced", "ordersSynced"}

\* C1: filterProductsByDestination returns primary and secondary with no
\* product in both; a product whose sku equals an excluded SKU, compared
\* case-insensitively, is in neither; every other input product is in
\* secondary iff its sku is in the secondary-SKU set, and otherwise in primary.
C1_ProductPartition ==
  ProductsRouted =>
    /\ \A i \in 1..Len(allProducts) :
         LET p == allProducts[i]
             inP == InList(p, routedProducts.primary)
             inS == InList(p, routedProducts.secondary)
         IN  /\ ~(inP /\ inS)
             /\ ExcludedByEnv(p.sku) => ~inP /\ ~inS
             /\ ~ExcludedByEnv(p.sku) =>
                  /\ inS <=> p.sku \in secondarySkus
                  /\ inP <=> p.sku \notin secondarySkus
    /\ \A q \in Range(routedProducts.primary) \cup Range(routedProducts.secondary) :
         InList(q, allProducts)

\* a product excluded only through the case-insensitive comparison, next to
\* a product routed to secondary
C1_Witness ==
  /\ ProductsRouted
  /\ \E i \in 1..Len(allProducts) :
       /\ ExcludedByEnv(allProducts[i].sku)
       /\ allProducts[i].sku \notin excludedEnv
  /\ Len(routedProducts.secondary) > 0

\* C2: an order is routed to secondary iff at least one of its line items
\* that survives the removal of excluded SKUs has a sku in the secondary-SKU
\* set; every other order that keeps at least one item is routed to primary.
C2_OrderRouting ==
  OrdersRouted =>
    \A i \in 1..Len(allOrders) :
      LET o == allOrders[i]
          surv == SurvivingItems(o)
          hasSec == \E k \in 1..Len(surv) : surv[k] \in secondarySkus
      IN  /\ Occurrences(o.id, routedOrders.secondary) > 0 <=> hasSec
          /\ (Len(surv) > 0 /\ ~hasSec) => Occurrences(o.id, routedOrders.primary) > 0

\* an order routed to secondary although one of its items is no secondary
\* SKU, next to an order routed to primary
C2_Witness ==
  /\ OrdersRouted
  /\ Len(routedOrders.primary) > 0
  /\ \E i \in 1..Len(allOrders) :
       /\ Occurrences(allOrders[i].id, routedOrders.secondary) > 0
       /\ \E k \in 1..Len(allOrders[i].items) :
            allOrders[i].items[k] \notin secondarySkus

\* C3: every input order that keeps at least one line item after exclusion
\* appears exactly once in primary and secondary taken together, carrying all
\* of its surviving items; an order with one secondary-SKU item and one
\* primary-SKU item appears once, in secondary only.
C3_OrderOnceWhole ==
  OrdersRouted =>
    \A i \in 1..Len(allOrders) :
      LET o == allOrders[i]
          surv == SurvivingItems(o)
          nP == Occurrences(o.id, routedOrders.primary)
          nS == Occurrences(o.id, routedOrders.secondary)
          mixed == /\ Len(surv) = 2
                   /\ \E k \in 1..2 : surv[k] \in secondarySkus
                   /\ \E k \in 1..2 : surv[k] \notin secondarySkus
      IN  Len(surv) > 0 =>
            /\ nP + nS = 1
            /\ \A r \in Range(routedOrders.primary) \cup Range(routedOrders.secondary) :
                 r.id = o.id => r.items = surv
            /\ mixed => nS = 1 /\ nP = 0

\* a routed order with one secondary-SKU item and one primary-SKU item
C3_Witness ==
  /\ OrdersRouted
  /\ \E i \in 1..Len(routedOrders.secondary) :
       LET its == routedOrders.secondary[i].items
       IN  /\ Len(its) = 2
           /\ \E k \in 1..2 : its[k] \in secondarySkus
           /\ \E k \in 1..2 : its[k] \notin secondarySkus

\* C4: every order in either output has a non-empty item list without any
\* excluded-SKU item; an input order all of whose items are excluded is in
\* neither output and is not among the orders counted as errors, and the
\* error counts count routed orders only.
C4_NoExcludedNoEmpty ==
  OrdersRouted =>
    /\ \A r \in Range(routedOrders.primary) \cup Range(routedOrders.secondary) :
         /\ Len(r.items) > 0
         /\ \A k \in 1..Len(r.items) : ~ExcludedByEnv(r.items[k])
    /\ \A i \in 1..Len(allOrders) :
         LET o == allOrders[i]
         IN  (\A k \in 1..Len(o.items) : ExcludedByEnv(o.items[k])) =>
               /\ Occurrences(o.id, routedOrders.primary) = 0
               /\ Occurrences(o.id, routedOrders.secondary) = 0
               /\ o.id \notin errorOrderIds
    /\ orderErrors.primary + orderErrors.secondary = Cardinality(errorOrderIds)
    /\ orderErrors.primary <= Len(routedOrders.primary)
    /\ orderErrors.secondary <= Len(routedOrders.secondary)

\* the order syncs are over, an order whose items were all excluded was
\* dropped, and another order was counted as an error
C4_Witness ==
  /\ mainPc = "ordersSynced"
  /\ \E i \in 1..Len(allOrders) :
       /\ Len(allOrders[i].items) > 0
       /\ \A k \in 1..Len(allOrders[i].items) : ExcludedByEnv(allOrders[i].items[k])
  /\ orderErrors.primary + orderErrors.secondary > 0

Increasing(list) ==
  \A i, j \in 1..Len(list) : i < j => list[i].id < list[j].id

\* C5: the routers do not reorder: two products (orders) in the same output
\* list stand in the order in which they stood in the input.
C5_InputOrderKept ==
  /\ ProductsRouted =>
       Increasing(routedProducts.primary) /\ Increasing(routedProducts.secondary)
  /\ OrdersRouted =>
       Increasing(routedOrders.primary) /\ Increasing(routedOrders.secondary)

\* two products routed to the same list
C5_Witness ==
  /\ ProductsRouted
  /\ Len(routedProducts.primary) = 2

\* ------------------------------------------------------------------------
\* Synchronisation properties (Spec)
\* ------------------------------------------------------------------------
\* C6: within one syncProducts call, once a create for a sku has succeeded,
\* every later product of that sku in the call is sent as an update to the id
\* that create returned, never as a second create.
C6_CreateThenUpdate ==
  [][(pc = "productLoop" /\ processed' = processed + 1
        /\ createdThisCall[item'.sku] # NoId)
       => /\ lastReq'.kind = "updateProduct"
          /\ lastReq'.sku = item'.sku
          /\ lastReq'.id = createdThisCall[item'.sku]]_vars

\* an update was sent to the id a create of the same call returned
C6_Witness ==
  /\ callKind = "syncProducts"
  /\ lastReq.kind = "updateProduct"
  /\ lastReq.id # NoId
  /\ createdThisCall[lastReq.sku] = lastReq.id

\* C7: when no ledger request has failed and the listing returns every
\* product, a later syncProducts call sends no create for a sku that an
\* earlier call has synced, so that a call whose products were all synced
\* before (the same list again) counts updates only; and the ledger holds at
\* most one product per sku.
C7_IdempotentAcrossRuns ==
  noFail =>
    /\ \A s \in ClientSkus : ledgerProducts[s] <= 1
    /\ (callKind = "syncProducts" /\ lastReq.kind = "createProduct")
         => lastReq.sku \notin syncedBefore
    /\ (callKind = "syncProducts" /\ pc = "returned" /\ callSkus \subseteq syncedBefore)
         => results.created = 0 /\ results.updated = batchLen

\* a second syncProducts call has returned, without any failure, for
\* products whose skus the first call synced
C7_Witness ==
  /\ noFail
  /\ callKind = "syncProducts"
  /\ pc = "returned"
  /\ calls = 2
  /\ callSkus # {}
  /\ callSkus \subseteq syncedBefore
  /\ batchLen = 2

\* the rate createOrUpdateProduct resolves for a product: the rate of its
\* site, else its own default rate, else the configured default
ResolvedRate(product) ==
  LET site == IF product.sitePrefix = Some("S1") THEN Some(SiteVatRate) ELSE Null
  IN  IF Truthy(site) THEN site
      ELSE IF Truthy(product.defaultVatRate) THEN product.defaultVatRate
      ELSE Some(DefaultVatRate)

\* C8: a product update request carries no tax field; a product create
\* request carries the tax field, set to the resolved rate.
C8_TaxOnlyOnCreate ==
  /\ lastReq.kind = "updateProduct" => lastReq.tax = Null
  /\ lastReq.kind = "createProduct" =>
       /\ lastReq.tax # Null
       /\ lastReq.tax = ResolvedRate(item)

\* an update was sent for a product that has a rate of its own, in a call
\* that has sent a create before
C8_Witness ==
  /\ lastReq.kind = "updateProduct"
  /\ item.defaultVatRate # Null
  /\ results.created > 0

Sum(res) == res.created + res.updated + res.errors

\* C9: the counts of a sync call add up to the number of items processed;
\* the call returns only when every item of its input has been processed,
\* with created + updated + errors (syncOrders: created + errors) equal to
\* the length of the input.
C9_CountsAddUp ==
  /\ Sum(results) = processed
  /\ callKind = "syncOrders" => results.updated = 0
  /\ processed <= batchLen
  /\ pc = "returned" => processed = batchLen /\ Sum(results) = batchLen

\* a call has returned whose last item succeeded after an earlier item failed
C9_Witness ==
  /\ pc = "returned"
  /\ batchLen = 2
  /\ results.errors = 1
  /\ lastOutcome # "error"

\* the write that decides the outcome of an item
ItemWrites == {"createProduct", "updateProduct", "createDocument"}

ItemWriteFailed ==
  \E k \in 1..Len(itemReqs) : itemReqs[k].kind \in ItemWrites /\ ~itemReqs[k].ok

\* C10: whatever requests fail, no error leaves syncProducts or syncOrders;
\* an item is counted as an error exactly when its own product write or
\* document create failed, and the errors of a call are the failed writes of
\* its items.
C10_NoThrow ==
  /\ pc # "thrown"
  /\ results.errors = failedWrites
  /\ lastOutcome # "none" => (lastOutcome = "error" <=> ItemWriteFailed)

\* syncOrders has returned one order created and one as an error, after a
\* failed load and a failed payment call
C10_Witness ==
  /\ pc = "returned"
  /\ callKind = "syncOrders"
  /\ existingProducts = EmptyProducts
  /\ results.created = 1
  /\ results.errors = 1
  /\ lastReq.kind = "payDocument"
  /\ ~lastReq.ok

\* ------------------------------------------------------------------------
\* Invoices (Spec)
\* ------------------------------------------------------------------------
\* C11: when the document create request of an order has succeeded and the
\* payment-marking request that follows fails, createInvoice reports success:
\* syncOrders counts the order as created and not as an error.
C11_PaymentFailureStillCreated ==
  [][(/\ pc = "payDocument"
      /\ itemReqs[Len(itemReqs)].kind = "createDocument"
      /\ itemReqs[Len(itemReqs)].ok
      /\ lastReq'.kind = "payDocument"
      /\ ~lastReq'.ok)
     => (/\ lastOutcome' = "created"
         /\ results'.created = results.created + 1
         /\ results'.errors = results.errors)]_vars

\* the payment-marking request of a created document has failed
C11_Witness ==
  /\ callKind = "syncOrders"
  /\ pc = "orderLoop"
  /\ Len(itemReqs) >= 2
  /\ itemReqs[Len(itemReqs) - 1].kind = "createDocument"
  /\ itemReqs[Len(itemReqs) - 1].ok
  /\ lastReq.kind = "payDocument"
  /\ ~lastReq.ok

\* ------------------------------------------------------------------------
\* Reference caches (Spec)
\* ------------------------------------------------------------------------
\* C12: the caches are rebuilt from the ledger at the start of every sync
\* call: a product entry cached during an earlier call on the same client,
\* which the ledger has not returned to the running call, is not used, so an
\* update is sent only for a sku the ledger returned to this call or this
\* call created.
C12_CachesRebuilt ==
  (callKind = "syncProducts" /\ lastReq.kind = "updateProduct")
    => (lastReq.sku \in loadedSkus \/ createdThisCall[lastReq.sku] # NoId)

\* C13: a failed page request of the paginated product load raises, it does
\* not end the pagination as if it were complete: syncProducts sends a
\* product write only after the load has read the last page of the index.
C13_NoWriteOnPartialIndex ==
  (callKind = "syncProducts" /\ lastReq.kind \in {"createProduct", "updateProduct"})
    => indexComplete

\* ------------------------------------------------------------------------
\* Tax and price arithmetic (SpecCalc)
\* ------------------------------------------------------------------------
\* the first of the given optional values that is not null
FirstNotNull(a, b, c) == IF a # Null THEN a ELSE IF b # Null THEN b ELSE c

\* C14: the tax rate of an invoice line is resolved by strict precedence:
\* the percentage embedded in the cached ledger product's tax code when it
\* parses; otherwise the line's own taxRate whenever it is not null;
\* otherwise the site default rate; otherwise the configured default of 21.
C14_TaxPrecedence ==
  calcPc = "line" =>
    calcItem.tax =
      Val(FirstNotNull(taxOfEntry(calcEntry),
                       calcLine.taxRate,
                       FirstNotNull(calcSite, Some(DefaultVatRate), Null)))

\* the rate the price computation is to use: the percentage of the ledger
\* product's tax code when it parses, otherwise the site rate, the product's
\* default rate or the configured default
RateForPrice ==
  LET ledger == taxOfEntry(calcEntry)
  IN  IF ledger # Null THEN Val(ledger)
      ELSE IF Truthy(calcSite) THEN Val(calcSite)
      ELSE IF Truthy(calcProduct.defaultVatRate) THEN Val(calcProduct.defaultVatRate)
      ELSE DefaultVatRate

\* price / (1 + r/100) rounded to 2 decimals, in thousandths
RoundedNet(price, r) == 10 * ((2 * price * 10 + (100 + r)) \div (2 * (100 + r)))

\* a product of price 121 with tax-inclusive prices, default rate 21 and no
\* ledger entry is created with price 100.00 and tax 21
PriceExample ==
  (/\ calcProduct.price = 121000
   /\ calcProduct.pricesIncludeTax
   /\ calcProduct.defaultVatRate = Some(21)
   /\ calcSite = Null
   /\ calcEntry = Null)
  => (calcPayload.price = 100000 /\ calcPayload.tax = Some(21))

\* C15 as stated: the price sent is price / (1 + r/100) rounded to 2 decimals
\* whenever the product is flagged pricesIncludeTax, and the source price
\* otherwise.
C15_NetPriceAsStated ==
  calcPc = "product" =>
    /\ calcPayload.price =
         IF calcProduct.pricesIncludeTax
         THEN RoundedNet(calcProduct.price, RateForPrice)
         ELSE calcProduct.price
    /\ PriceExample

\* C15: the price sent is price / (1 + r/100) rounded to 2 decimals when the
\* product is flagged pricesIncludeTax and r is positive, and the unchanged,
\* unrounded source price otherwise; r is the percentage of the ledger
\* product's tax code when it parses and otherwise the site, product or
\* configured default rate; price 121, tax-inclusive, default rate 21 and no
\* ledger entry give price 100.00 and tax 21.
C15_NetPrice ==
  calcPc = "product" =>
    /\ calcPayload.price =
         IF calcProduct.pricesIncludeTax /\ RateForPrice > 0
         THEN RoundedNet(calcProduct.price, RateForPrice)
         ELSE calcProduct.price
    /\ PriceExample

\* the payload of the product of the example has been built
C15_Witness ==
  /\ calcPc = "product"
  /\ calcProduct.price = 121000
  /\ calcProduct.pricesIncludeTax
  /\ calcProduct.defaultVatRate = Some(21)
  /\ calcSite = Null
  /\ calcEntry = Null
  /\ calcPayload = [price |-> 100000, tax |-> Some(21)]

Abs(x) == IF x < 0 THEN 0 - x ELSE x

\* | f * (1 + r/100) * k - x | is at most one cent, f a fraction of a cent
WithinACent(f, r, k, x) ==
  Abs(f.num * (100 + r) * k - x * 100 * f.den) <= 100 * f.den

\* C16 as stated: for a line with tax-inclusive total X, any positive
\* quantity and resolved rate r, the subtotal S sent for the line satisfies
\* S * (1 + r/100) = X within a 2-decimal rounding tolerance.
C16_RoundTripAsStated ==
  calcPc = "line" =>
    WithinACent(calcItem.subtotal, calcItem.tax, 1, calcLine.totalWithTax)

\* C16: for a line with tax-inclusive total X, positive quantity q and
\* resolved rate r >= 0, the subtotal S sent for the line is the net price
\* of one unit: S * q * (1 + r/100) = X within a 2-decimal rounding
\* tolerance, and the line is sent with units = q.
C16_RoundTrip ==
  calcPc = "line" =>
    /\ calcItem.units = calcLine.quantity
    /\ WithinACent(calcItem.subtotal, calcItem.tax, calcItem.units,
                   calcLine.totalWithTax)

\* a line of two units taxed at 21 has been built
C16_Witness ==
  /\ calcPc = "line"
  /\ calcLine.quantity = 2
  /\ calcLine.totalWithTax = 12100
  /\ calcItem.tax = 21
  /\ calcItem.units = 2
  /\ calcItem.subtotal = Frac(1210000, 242)

\* ------------------------------------------------------------------------
\* Document payloads (Spec)
\* ------------------------------------------------------------------------
\* the forms of contact linkage a document payload carries
LinkForms(link) ==
  {f \in {"contactId", "contactCode", "inline"} :
     \/ f = "contactId" /\ link.contactId # NoId
     \/ f = "contactCode" /\ link.contactCode # ""
     \/ f = "inline" /\ link.inline}

\* the request settled last is the document create of the current order
DocumentJustSent ==
  /\ lastReq.kind = "createDocument"
  /\ pc \in {"payDocument", "orderLoop", "returned"}

\* C17 as stated: a document payload links its contact by the single
\* highest-priority form available: contactId when a contact id was
\* resolved; otherwise contactCode when the customer has a VAT number;
\* otherwise, and only then, the inline contact fields.
C17_SingleLinkAsStated ==
  DocumentJustSent =>
    LinkForms(lastReq.link) =
      IF contactId # NoId THEN {"contactId"}
      ELSE IF curOrder.customer.vatNumber # "" THEN {"contactCode"}
      ELSE IF ~curOrder.customer.isNull THEN {"inline"}
      ELSE {}

\* C17: a document payload carries contactId alone when a contact id was
\* resolved; otherwise, when the order has a customer, it carries the inline
\* contact fields, and with them contactCode set to the customer's VAT number
\* when one exists; an order without customer carries no contact linkage.
C17_ContactLinkage ==
  DocumentJustSent =>
    /\ lastReq.link.contactId = contactId
    /\ LinkForms(lastReq.link) =
         IF contactId # NoId THEN {"contactId"}
         ELSE IF curOrder.customer.isNull THEN {}
         ELSE IF curOrder.customer.vatNumber # "" THEN {"contactCode", "inline"}
         ELSE {"inline"}
    /\ lastReq.link.contactCode # "" =>
         lastReq.link.contactCode = curOrder.customer.vatNumber

\* a document was sent for a named customer with a VAT number whose contact
\* could not be resolved: contactCode and the inline fields go together
C17_Witness ==
  /\ DocumentJustSent
  /\ curOrder.customer.name = "Bob"
  /\ contactId = NoId
  /\ lastReq.link = [contactId |-> NoId, contactCode |-> "ES1", inline |-> TRUE]

\* the document create requests among the requests of the current order
DocumentRequests ==
  {k \in 1..Len(itemReqs) : itemReqs[k].kind = "createDocument"}

\* createInvoice has returned for the current order
InvoiceReturned ==
  callKind = "syncOrders" /\ pc \in {"orderLoop", "returned"} /\ processed > 0

\* C18: invoice creation is create-only, with no search before the create:
\* every order handed to createInvoice leads to exactly one document create
\* request, and each such request the ledger accepts adds a document for the
\* order, also when the ledger already holds documents of that order; two
\* syncOrders calls with the same N orders send 2N create requests and leave
\* two documents per order.
C18_CreateOnly ==
  /\ [](InvoiceReturned => Cardinality(DocumentRequests) = 1)
  /\ [][(/\ pc = "postDocument"
          /\ Len(itemReqs') = Len(itemReqs) + 1
          /\ lastReq'.ok)
         => ledgerDocuments' =
              [ledgerDocuments EXCEPT ![curOrderId] = @ + 1]]_vars

\* two syncOrders calls of two orders each have returned, every request
\* accepted, and the ledger holds two documents of each order
C18_Witness ==
  /\ noFail
  /\ calls = 2
  /\ callKind = "syncOrders"
  /\ pc = "returned"
  /\ batchLen = 2
  /\ ledgerDocuments = [o \in OrderIds |-> 2]

\* C19: within one client at most one write request (product create or
\* update, contact create, document create, payment) is in flight at any
\* time: each write is answered before the next one is sent.
WriteRequests == {"writeProduct", "createContact", "createDocument", "payDocument"}

DocumentSent(sent) == sent.primary + sent.secondary > 0

C20_ProductsBeforeDocuments ==
  /\ [](DocumentSent(documentCreates) => openProductWrites = NoRequests)
  /\ [][DocumentSent(documentCreates')
          => /\ openProductWrites = NoRequests
             /\ productWrites' = productWrites]_vars

\* documents are sent to both ledgers in a run that wrote products to both
C20_Witness ==
  /\ mainPc = "ordersSynced"
  /\ productWrites.primary > 0
  /\ productWrites.secondary > 0
  /\ documentCreates.primary > 0
  /\ documentCreates.secondary > 0
  /\ openProductWrites = NoRequests

\* ------------------------------------------------------------------------
\* Source aggregation (SpecFetch)
\* ------------------------------------------------------------------------
\* what a source adds to the aggregated list
Contribution(source) ==
  IF source \in srcFailed THEN <<>> ELSE RecordsOf(source, srcHeld[source])

\* C21: when records are aggregated from several sources, a source whose
\* fetch throws contributes zero records, the records of the other sources
\* are still returned to main(), and no failure of a source leaves the fetch
\* as an exception.
C21_FailedSourceContributesNothing ==
  /\ ~srcThrown
  /\ fetched # Null =>
       Val(fetched) = Contribution(Sites[1]) \o Contribution(Sites[2]) \o
                      (IF srcKind = "orders" THEN Contribution("sumup") ELSE <<>>)

\* one site failed and the list still holds the records of another source
C21_Witness ==
  /\ fetched # Null
  /\ Sites[1] \in srcFailed
  /\ srcHeld[Sites[1]] > 0
  /\ Len(Val(fetched)) > 0

\* ------------------------------------------------------------------------
\* Sales channel and warehouse of a document (SpecHints)
\* ------------------------------------------------------------------------
\* the document request of the order in process has been sent
HintedDocumentSent ==
  /\ lastReq.kind = "createDocument"
  /\ pc \in {"payDocument", "orderLoop", "returned"}

\* C22: an invoice payload carries a salesChannel (warehouse) field only if
\* the order names a sales channel (warehouse) present in the client's
\* reference cache; an unmapped name is left out; and when the load of the
\* sales channels has thrown in the running syncOrders call, no invoice of
\* that call carries a salesChannel field.
C22_HintsOnlyFromLoadedCache ==
  HintedDocumentSent =>
    /\ docHints.salesChannel # Null =>
         /\ curHints.salesChannel = docHints.salesChannel
         /\ Val(curHints.salesChannel) \in salesChannels
    /\ docHints.warehouse # Null =>
         /\ curHints.warehouse = docHints.warehouse
         /\ Val(curHints.warehouse) \in warehouses
    /\ channelsFailed => docHints.salesChannel = Null

\* ------------------------------------------------------------------------
\* Payments (Spec)
\* ------------------------------------------------------------------------
\* the payment requests among the answered requests of the current order
PaymentRequests ==
  {k \in 1..Len(itemReqs) : itemReqs[k].kind = "payDocument"}

\* payment requests of the current order sent so far, answered or in flight
PaymentsSent ==
  Cardinality(PaymentRequests) + (IF "payDocument" \in inFlight THEN 1 ELSE 0)

\* the document create of the current order has been answered with success
DocumentCreated ==
  \E k \in DocumentRequests : itemReqs[k].ok

\* C23: a payment request for an order is sent only after the document
\* create request of that order has succeeded, and one is sent for every
\* created document whose order has paid !== false; none is sent for an order
\* with paid === false or for an order whose document create failed.
C23_PaymentAfterCreate ==
  callKind = "syncOrders" =>
    /\ PaymentsSent > 0 => DocumentCreated /\ curOrder.paid
    /\ \A k \in PaymentRequests :
         k > 1 /\ itemReqs[k - 1].kind = "createDocument" /\ itemReqs[k - 1].ok
    /\ (DocumentCreated /\ curOrder.paid) => PaymentsSent = 1
    /\ PaymentsSent <= 1

\* a paid order whose document was created and whose payment was sent
C23_Witness ==
  /\ InvoiceReturned
  /\ DocumentCreated
  /\ curOrder.paid
  /\ PaymentsSent = 1

\* ------------------------------------------------------------------------
\* Pagination of loadExistingProducts (Spec)
\* ------------------------------------------------------------------------
\* the load of the running call has read its last page and no product has
\* been written since
LoadJustDone ==
  /\ indexComplete
  /\ \/ callKind = "syncProducts" /\ pc = "productLoop" /\ processed = 0
     \/ callKind = "syncOrders" /\ pc \notin {"idle", "returned"}

\* the pages it takes to list the ledger: the first page shorter than the
\* page size is the last
LastPage == LedgerTotal \div PageSize + 1

\* C24: loadExistingProducts requests pages 1, 2, 3, ... in increasing order
\* and stops after the first page that returns fewer than the page size (50)
\* items; against a ledger of finitely many products served in pages of 50 it
\* is over after finitely many requests, with every sku of the ledger in the
\* cache.
C24_Pagination ==
  /\ [](LoadingProducts => page \in 1..LastPage)
  /\ [](LoadJustDone =>
          /\ page = LastPage + 1
          /\ ~hasMore(LastPage)
          /\ \A q \in 1..(LastPage - 1) : hasMore(q)
          /\ \A s \in ClientSkus :
               ledgerProducts[s] > 0 => existingProducts[s] # NoId)
  /\ [][LoadingProducts /\ page' # page
          => /\ page' = page + 1
             /\ lastReq'.kind = "listProducts"
             /\ lastReq'.ok]_vars

\* a load of two pages is over: the first page was full, the second was not
C24_Witness ==
  /\ LoadJustDone
  /\ page = 3
  /\ ledgerProducts["b"] > 0

\* ------------------------------------------------------------------------
\* Contact resolution (Spec)
\* ------------------------------------------------------------------------
\* the searches in the order of their precedence, and the place of each
SearchOrder == <<"searchEmail", "searchDni", "searchVat">>

SearchRank(st) ==
  IF st = "createContact" THEN 4 ELSE CHOOSE r \in 1..3 : SearchOrder[r] = st

\* the customer has the identifier a search asks for
Applicable(customer, st) == SearchValue(customer, st) # ""

\* the ledger holds a contact the search of the current customer matches
Found(st) ==
  SearchContact(SearchField(st), SearchValue(curOrder.customer, st)) # Null

\* the searches a customer's identifiers call for before stage st, in order
SearchesBefore(customer, st) ==
  SelectSeq(SubSeq(SearchOrder, 1, Min(SearchRank(st) - 1, 3)),
            LAMBDA k : Applicable(customer, k))

Resolved(customer) ==
  /\ ~customer.isNull
  /\ customer.name # "" \/ customer.email # ""
  /\ existingContacts[contactKey(customer)] # NoId

\* a request of findOrCreateContact has been answered in this step
ContactAnswered ==
  /\ pc \in {"searchEmail", "searchDni", "searchVat", "createContact"}
  /\ Len(itemReqs') = Len(itemReqs) + 1
  /\ lastReq'.ok

\* createInvoice starts for an order in this step
InvoiceStarts ==
  /\ callKind = "syncOrders"
  /\ pc = "orderLoop"
  /\ pc' \notin {"orderLoop", "returned", "idle"}

\* C26: within one client, once findOrCreateContact has resolved a customer
\* key (email if present, else name) to an id by a search match or a create,
\* the cache holds that id for the key, every later call with the same key
\* returns it without sending a ledger request, and a create is sent only for
\* a key the cache holds no id for, so at most one contact is created per key.
C26_ContactCached ==
  /\ [][(ContactAnswered /\ contactId' # NoId)
          => existingContacts'[contactKey(curOrder.customer)] = contactId']_vars
  /\ [][\A k \in ContactKeys :
          (existingContacts[k] # NoId /\ pc' # "idle")
             => existingContacts'[k] = existingContacts[k]]_vars
  /\ [][(InvoiceStarts /\ Resolved(curOrder'.customer))
          => /\ pc' = "postDocument"
             /\ contactId' = existingContacts[contactKey(curOrder'.customer)]
             /\ inFlight' = {"createDocument"}]_vars
  /\ [](pc = "createContact"
          => existingContacts[contactKey(curOrder.customer)] = NoId)

\* an order of a customer whose key was resolved before goes straight to its
\* document with the cached id
C26_Witness ==
  /\ pc = "postDocument"
  /\ itemReqs = <<>>
  /\ contactId # NoId
  /\ contactId = existingContacts[contactKey(curOrder.customer)]

\* ------------------------------------------------------------------------
\* Retries (Spec)
\* ------------------------------------------------------------------------
\* the items of the running call whose write has been sent
ItemsWritten ==
  IF callKind = "syncOrders" /\ pc = "payDocument" THEN processed + 1 ELSE processed

LoadRequests ==
  {"listProducts", "listSalesChannels", "listWarehouses", "listPaymentMethods"}

\* a write of the running call is in flight or has been answered
WriteSent ==
  \/ inFlight \cap WriteRequests # {}
  \/ writesSent > 0
  \/ \E k \in 1..Len(itemReqs) :
       itemReqs[k].kind \in {"createProduct", "updateProduct", "createContact",
                             "createDocument", "payDocument"}

\* C28: cache initialisation precedes every write: in syncOrders no contact,
\* document or payment write is sent until the loads of existing products,
\* sales channels, warehouses and payment methods have all finished, by
\* success or failure, and in syncProducts no product write is sent until the
\* load of the existing products has finished.
C28_LoadsBeforeWrites ==
  (WriteSent /\ pc \notin {"idle", "returned"}) =>
    /\ inFlight \cap LoadRequests = {}
    /\ pc \notin {"loadProducts", "initialize"}
    /\ callKind = "syncOrders" => pending = {}

\* the first write of a syncOrders call is in flight after a load of the
\* call has failed
C28_Witness ==
  /\ callKind = "syncOrders"
  /\ inFlight \cap WriteRequests # {}
  /\ writesSent = 0
  /\ processed = 0
  /\ pending = {}
  /\ ~lastReq.ok
  /\ lastReq.kind \in LoadRequests

\* ------------------------------------------------------------------------
\* Failure of the contact resolution (Spec)
\* ------------------------------------------------------------------------
\* a contact search or the contact create of the current order has failed
ContactFailed ==
  \E k \in 1..Len(itemReqs) :
    /\ itemReqs[k].kind \in {"searchEmail", "searchDni", "searchVat", "createContact"}
    /\ ~itemReqs[k].ok

\* C29: if a contact search or the contact create request fails while the
\* customer of an order is resolved, createInvoice still sends the document
\* create request, with the inline contact fields in place of a contact id,
\* the order is counted as created when that request succeeds, and nothing
\* is cached for the customer key.
C29_ContactFailureFallsBack ==
  /\ [][(pc \in {"searchEmail", "searchDni", "searchVat", "createContact"}
          /\ Len(itemReqs') = Len(itemReqs) + 1
          /\ ~lastReq'.ok)
          => /\ pc' = "postDocument"
             /\ inFlight' = {"createDocument"}
             /\ existingContacts' = existingContacts]_vars
  /\ []((callKind = "syncOrders" /\ pc # "idle" /\ ContactFailed) =>
          /\ pc \in {"postDocument", "payDocument", "orderLoop", "returned"}
          /\ contactId = NoId
          /\ existingContacts[contactKey(curOrder.customer)] = NoId
          /\ \A k \in DocumentRequests :
               /\ itemReqs[k].link.contactId = NoId
               /\ itemReqs[k].link.inline
          /\ InvoiceReturned =>
               /\ Cardinality(DocumentRequests) = 1
               /\ lastOutcome = (IF DocumentCreated THEN "created" ELSE "error"))

\* the document of an order whose contact create failed was accepted and the
\* order counted as created
C29_Witness ==
  /\ InvoiceReturned
  /\ ContactFailed
  /\ DocumentCreated
  /\ lastOutcome = "created"
  /\ results.created > 0

\* ------------------------------------------------------------------------
\* Exit status (SpecExit)
\* ------------------------------------------------------------------------
Exited == exitPc = "exited"

\* the error counts of the four syncs of the run together
ErrorCountSum ==
  resultErrors.products.primary + resultErrors.products.secondary +
  resultErrors.orders.primary + resultErrors.orders.secondary

\* C30 as stated: the run ends with a non-zero exit status if and only if
\* the error counts of the product and order syncs on the primary and
\* secondary ledgers sum to more than zero or an exception reached main.
C30_ExitStatusAsStated ==
  Exited =>
    (Val(exitCode) # 0 <=> (ErrorCountSum > 0 \/ mainThrown))

\* C30: the run ends with a non-zero exit status if and only if
\* validateConfig found a configuration error, or the error counts of the
\* product and order syncs on the primary and secondary ledgers sum to more
\* than zero, or an exception reached main; a run in which every item synced
\* without error ends with a normal exit.
C30_ExitStatus ==
  Exited =>
    (Val(exitCode) # 0 <=>
       \/ ~mainArgs.help /\ ~configValid
       \/ ErrorCountSum > 0
       \/ mainThrown)

\* the run ended with status 1 on the errors of its product sync alone
C30_Witness ==
  /\ Exited
  /\ ~mainThrown
  /\ resultErrors.products.secondary > 0
  /\ resultErrors.orders = NoErrors
  /\ exitCode = Some(1)

====
